---- MODULE Spec2Model ----
(***************************************************************************)
(* A model of the backup/restore engine of docker-backup: the job-status   *)
(* table and the sequential backup queue (lib/queue), the history store    *)
(* (lib/storage), the single-container and unified-stack backup workers,   *)
(* the uploader and the restore entry points (app/actions).                *)
(*                                                                         *)
(* Node runs one callback at a time, so an action is the code that runs    *)
(* between two awaits: the continuation of a handler after the engine call *)
(* it awaited has settled.  The outcome of the awaited call is an input of *)
(* the action.                                                             *)
(***************************************************************************)
EXTENDS Integers, Sequences, FiniteSets, TLC

\* ------------------------------------------------------------------ bounds

\* Number of backup triggers in a behaviour of Spec.
MaxJobs == 2

\* Number of backup triggers in a behaviour of SpecArchive.
MaxArchiveJobs == 1

\* Number of restore calls in a behaviour of SpecRestore.
MaxRestores == 2

\* Number of stack restore calls in a behaviour of SpecStackRestore.
MaxStackRestores == 1

\* Number of stack restore calls in a behaviour of SpecStackPhases.
MaxPhaseRestores == 1

\* Number of clone restore calls in a behaviour of SpecClone.
MaxClones == 1

\* Number of initScheduler runs in a behaviour of SpecScheduler.
MaxInits == 2

\* Number of restoreSqlInternal calls in a behaviour of SpecSql.
MaxSqlRestores == 2

\* Number of stack restores in a behaviour of SpecDatabases.
MaxDbRestores == 1

\* Number of helper applications in a behaviour of SpecHelpers.
MaxApplications == 2

\* Number of queued jobs in a behaviour of SpecLive.
MaxLiveJobs == 2

\* Number of addHistoryEntry calls in a behaviour of SpecHistory.
MaxAdds == 6

\* Number of applications of the conflict rewriter in a behaviour of
\* SpecRewrite.
MaxRewrites == 2

\* ------------------------------------------------------- program constants

\* storage.ts: if (history.length > 200) history.pop();
HistoryLimit == 200

\* restoreUnifiedStackBackup: for (let i = 0; i < 30; i++)
ReadinessAttempts == 30

\* PQueue({ concurrency: 1 })
QueueConcurrency == 1

\* findAvailablePort: while (... && port < 65535)
PortLimit == 65535

\* ---------------------------------------------------------- the environment

\* Two containers of one compose project "S": a generic web server and a
\* Postgres database.
Containers == {"c1", "c2"}

\* A container of another compose project "T" whose service is also called
\* web.
OtherContainer == "c3"

Image(c) == IF c = "c2" THEN "postgres" ELSE "nginx"

ServiceOf(c) == IF c = "c2" THEN "db" ELSE "web"

\* The com.docker.compose.project label.
Project(c) == IF c = OtherContainer THEN "T" ELSE "S"

StackName == "S"

\* The containers the engine lists for the project, in listing order.
ProjectContainers == <<"c1", "c2">>

\* A stored stack definition (StackConfig) for "S", or none.
NoStack == [imported |-> FALSE, hasEnv |-> FALSE]

StackConfigs ==
    { NoStack,
      [imported |-> TRUE, hasEnv |-> FALSE],
      [imported |-> TRUE, hasEnv |-> TRUE] }

\* The service names of the stored definition.
StoredServices == {"web", "db"}

\* services[serviceName].volumes of the stored definition.
DeclaredVolumes(svc) == IF svc = "web" THEN <<"/data">> ELSE <<"/pg">>

\* The custom path lists a caller may hand to triggerBackup.
CustomPathChoices == { <<>>, <<"/x ">> }

\* String.prototype.trim on the path atoms of the model.
Trim(p) == IF p = "/x " THEN "/x" ELSE IF p = " " THEN "" ELSE p

\* ----------------------------------------------------------------- job ids

StackId(name) == "stack-S"

\* `restore_${Date.now()}` and `restore-stack-${Date.now()}`: one fresh id per
\* invocation, here per ticket.
CloneIds == <<"restore_1", "restore_2", "restore_3", "restore_4", "restore_5", "restore_6">>

StackRestoreIds ==
    <<"restore-stack-1", "restore-stack-2", "restore-stack-3",
      "restore-stack-4", "restore-stack-5", "restore-stack-6">>

\* The id of the database container a stack restore creates.
NewDbContainer == "new-db"

\* The application container a stack restore creates.
NewWebContainer == "new-web"

\* The container of a second database service, of a stack that has two.
SecondDbContainer == "new-db2"

MaxTickets == IF MaxJobs > MaxRestores THEN MaxJobs ELSE MaxRestores

Tickets == 1..MaxTickets

JobIds ==
    Containers \cup {OtherContainer, StackId(StackName), NewDbContainer, NewWebContainer,
                     SecondDbContainer}
        \cup {CloneIds[t] : t \in Tickets} \cup {StackRestoreIds[t] : t \in Tickets}

NoJob == [status |-> "none", message |-> ""]

VARIABLES
    globalState,  \* queue.ts globalState: job id -> {status, message}
    queue,        \* backupQueue: the tickets waiting, oldest first
    running,      \* the ticket the queue's worker runs, 0 when idle
    procs,        \* every handler invocation: ticket -> its position and data
    history,      \* history.json, newest first
    stacks,       \* stacks.json: the stored definition of stack "S"
    telegram,     \* TELEGRAM_TOKEN && CHAT_ID
    added,        \* SpecHistory: every entry ever stored, oldest first
    engine,       \* the host and the engine: bound and published ports, networks
    versions,     \* SpecRewrite: the manifest given and each rewriter output
    emitted,      \* SpecRewrite: the records each rewriter application emitted
    probed,       \* SpecRewrite: the last port search and its result
    scheduler,    \* scheduler.ts scheduledTasks and every task cron.schedule made
    postgres,     \* SpecSql: the database server of the db container
    applied       \* SpecHelpers: the last helper applied, its input and result

\* The variables of the conflict rewriter's specification.
rewriter == <<versions, emitted, probed>>

\* The variables of the scheduler's and the SQL restore's specifications.
sideState == <<scheduler, postgres, applied>>

vars ==
    <<globalState, queue, running, procs, history, stacks, telegram, added, engine, rewriter,
      sideState>>

\* No port search has been made.
NoProbe == [start |-> 0, threw |-> FALSE, port |-> 0]

\* The volumes of the stack's containers: the named volume of db and the
\* anonymous volume of web.
Volumes == {"pgdata", "anon_web"}

\* The anonymous volumes attached to container c.
AnonymousVolumes(c) == IF c = "c1" THEN {"anon_web"} ELSE {}

\* A host with no port in use and an engine with no network, on which the
\* containers of the stack run.
QuietEngine ==
    [bound |-> {}, published |-> {}, up |-> TRUE, networks |-> {},
     containers |-> [c \in Containers |-> "running"], volumes |-> Volumes]

\* ------------------------------------------------------------ lib/queue.ts

updateJobStatus(gs, id, status, message) ==
    [gs EXCEPT ![id] = [status |-> status, message |-> message]]

\* A run of updateJobStatus calls <<id, status, message>>, in program order.
RECURSIVE ApplyWrites(_, _)
ApplyWrites(gs, ws) ==
    IF ws = <<>> THEN gs
    ELSE ApplyWrites(updateJobStatus(gs, ws[1][1], ws[1][2], ws[1][3]), Tail(ws))

\* The head of the queue is the next task (p-queue is FIFO without priorities).
NextTaskLifo(q) == Len(q)

NextTask(q) == 1

RemoveAt(q, i) == [k \in 1..(Len(q) - 1) |-> IF k < i THEN q[k] ELSE q[k + 1]]

\* The number of tasks the queue's worker is running (p-queue's pending count).
WorkerBusy == IF running = 0 THEN 0 ELSE 1

\* ---------------------------------------------------------- lib/storage.ts

\* Array.prototype.unshift followed by the bounded pop.
addHistoryEntryDropNewest(h, entry) ==
    LET u == <<entry>> \o h
    IN  IF Len(u) > HistoryLimit THEN Tail(u) ELSE u

addHistoryEntry(h, entry) ==
    LET u == <<entry>> \o h
    IN  IF Len(u) > HistoryLimit THEN SubSeq(u, 1, Len(u) - 1) ELSE u

HistoryEntry(job, name, status, destination, message) ==
    [job |-> job, containerName |-> name, status |-> status,
     destination |-> destination, message |-> message]

\* ------------------------------------------------------------- the archive

\* An archive entry: the prefix ("" or services/<container>), the entry's
\* kind and, for a tar or an ERROR file, the path it stands for.
Entry(prefix, name, path) == <<prefix, name, path>>

PrefixOf(kind, c) == IF kind = "stack" THEN c ELSE ""

IsDbImage(image) == image \in {"postgres", "timescale", "mysql", "mariadb"}

RECURSIVE Dedup(_)
Dedup(s) ==
    IF s = <<>> THEN <<>>
    ELSE LET r == Dedup(SubSeq(s, 1, Len(s) - 1))
             x == s[Len(s)]
         IN  IF \E i \in 1..Len(r) : r[i] = x THEN r ELSE Append(r, x)

RECURSIVE TrimAll(_)
TrimAll(s) ==
    IF s = <<>> THEN <<>>
    ELSE IF Trim(s[1]) = "" THEN TrimAll(Tail(s))
         ELSE <<Trim(s[1])>> \o TrimAll(Tail(s))

\* pathsToBackup: the stored definition's volume destinations of the
\* container's service, then the custom paths, as a Set in insertion order.
uniquePaths(c, custom) ==
    Dedup((IF stacks.imported /\ Project(c) = StackName THEN TrimAll(DeclaredVolumes(ServiceOf(c))) ELSE <<>>)
              \o TrimAll(custom))

\* ------------------------------------------------------ handler invocations

\* One invocation of a handler.  pc is the position of the handler itself,
\* ex the position of the archive-building executor it started (the async
\* function handed to new Promise), promise the state of that Promise.
NewProc(kind, id, via, custom, pc) ==
    [kind |-> kind, id |-> id, via |-> via, pc |-> pc, custom |-> custom,
     promise |-> "none", ex |-> "none", listed |-> <<>>, members |-> <<>>, idx |-> 0,
     paths |-> <<>>, archive |-> <<>>, file |-> "none", exErr |-> "",
     lost |-> FALSE, term |-> "none", termMsg |-> "", errs |-> {},
     artifact |-> "", networks |-> <<>>, ops |-> <<>>, ensureThrew |-> FALSE,
     deployedOn |-> {}, volumesBefore |-> {}, recreated |-> {}, ready |-> FALSE,
     attempts |-> 0,
     clone |-> [config |-> [networks |-> <<>>, paths |-> <<>>], endpoints |-> {},
                exists |-> FALSE, running |-> FALSE, puts |-> <<>>, failedAt |-> ""]]

Cur(p) == p.members[p.idx]

ReleaseNever(t) == running

\* The handler of ticket t has returned: a queue task frees the worker.
Release(t) == IF running = t THEN 0 ELSE running

\* archive.finalize() after the last archiveContainerInternal has returned, or
\* the next iteration of the stack backup's service loop.
ReturnFromArchiveFirstOnly(p) == [p |-> [p EXCEPT !.ex = "closing", !.paths = <<>>], ws |-> <<>>]

ReturnFromArchive(p) ==
    IF p.kind = "stack" /\ p.idx < Len(p.members)
    THEN LET c == p.members[p.idx + 1]
         IN  [p |-> [p EXCEPT !.idx = p.idx + 1, !.ex = "inspect", !.paths = <<>>],
              ws |-> << <<p.id, "processing", "Archiving Service">>,
                        <<c, "processing", "Step: Inspecting Container...">> >>]
    ELSE [p |-> [p EXCEPT !.ex = "closing", !.paths = <<>>], ws |-> <<>>]

\* archiveContainerInternal, part 2 (VOLUME/CONFIG BACKUP): the path set, the
\* config.json entry, then the first getArchive or the volumes_none.txt entry.
VolumeStepSkipPaths(p) ==
    LET q == [p EXCEPT !.archive =
                  Append(p.archive, Entry(PrefixOf(p.kind, Cur(p)), "config.json", ""))]
    IN  ReturnFromArchive(q)

VolumeStep(p) ==
    LET c == Cur(p)
        prefix == PrefixOf(p.kind, c)
        ps == uniquePaths(c, p.custom)
        q == [p EXCEPT !.archive = Append(p.archive, Entry(prefix, "config.json", ""))]
    IN  IF ps # <<>>
        THEN [p |-> [q EXCEPT !.ex = "path", !.paths = ps],
              ws |-> << <<c, "processing", "Archiving: path">> >>]
        ELSE LET r == ReturnFromArchive(
                        [q EXCEPT !.archive =
                             Append(q.archive, Entry(prefix, "volumes_none.txt", ""))])
             IN  r

\* An error thrown inside the async executor of new Promise: the executor's own
\* promise rejects, nothing calls reject(), the outer Promise stays pending.
\* lost records that the handler was still waiting for the Promise.
ExecutorThrows(p, message, kind) ==
    [p EXCEPT !.ex = "thrown", !.exErr = message, !.errs = p.errs \cup {kind},
              !.lost = (p.promise = "pending")]

\* ------------------------------------------------------------ the triggers

\* triggerBackup([c], {c: custom}): API call or a container schedule's cron
\* callback.  A call with several ids is this body once per id, in order.
TriggerBackup(c, custom) ==
    /\ Len(procs) < MaxJobs
    /\ LET t == Len(procs) + 1
           ws == << <<c, "pending", "Queued">> >>
       IN  /\ procs' = Append(procs, NewProc("container", c, "queue", custom, "queued"))
           /\ globalState' = ApplyWrites(globalState, ws)
           /\ queue' = Append(queue, t)
    /\ UNCHANGED <<running, history, stacks, telegram, added, engine, rewriter, sideState>>

\* The cron callback of a stack schedule: backupQueue.add(() =>
\* triggerUnifiedStackBackup(stackName)).  Nothing is written to the table.
SchedulerStackFire ==
    /\ Len(procs) < MaxJobs
    /\ LET t == Len(procs) + 1
       IN  /\ procs' = Append(procs, NewProc("stack", StackId(StackName), "queue", <<>>, "queued"))
           /\ queue' = Append(queue, t)
    /\ UNCHANGED <<globalState, running, history, stacks, telegram, added, engine, rewriter, sideState>>

\* triggerUnifiedStackBackup up to its first await (docker.listContainers).
StackBegin(p) ==
    [p |-> [p EXCEPT !.pc = "list"],
     ws |-> << <<p.id, "processing", "Starting Unified Backup">> >>]

\* The dashboard's stack backup button: triggerUnifiedStackBackup(name) called
\* directly, not through the queue.
ApiStackBackup ==
    /\ Len(procs) < MaxJobs
    /\ LET b == StackBegin(NewProc("stack", StackId(StackName), "direct", <<>>, "new"))
       IN  /\ procs' = Append(procs, b.p)
           /\ globalState' = ApplyWrites(globalState, b.ws)
    /\ UNCHANGED <<queue, running, history, stacks, telegram, added, engine, rewriter, sideState>>

\* The queue starts its next task when the worker is free: processBackup up
\* to its first await (container.inspect in generateBackupFile), or the
\* scheduler's stack task.
QueueNext ==
    /\ WorkerBusy < QueueConcurrency
    /\ queue # <<>>
    /\ LET i == NextTask(queue)
           t == queue[i]
           p == procs[t]
           b == IF p.kind = "stack" THEN StackBegin(p)
                ELSE [p |-> [p EXCEPT !.pc = "gen_inspect"],
                      ws |-> << <<p.id, "processing", "Identifying...">> >>]
       IN  /\ queue' = RemoveAt(queue, i)
           /\ running' = t
           /\ procs' = [procs EXCEPT ![t] = b.p]
           /\ globalState' = ApplyWrites(globalState, b.ws)
    /\ UNCHANGED <<history, stacks, telegram, added, engine, rewriter, sideState>>

\* ----------------------------------------------------- the container backup

\* processBackup's catch: the job is failed and a failed entry is added.
ProcessBackupCatch(t, p, message, kind) ==
    LET ws == << <<p.id, "failed", message>> >>
    IN  /\ procs' = [procs EXCEPT ![t] =
                        [p EXCEPT !.pc = "done", !.term = "failed", !.termMsg = message,
                                  !.errs = p.errs \cup {kind}]]
        /\ globalState' = ApplyWrites(globalState, ws)
        /\ history' = addHistoryEntry(history,
                          HistoryEntry(t, "Unknown", "failed", "local", message))
        /\ running' = Release(t)

\* triggerUnifiedStackBackup's catch: the job is failed, nothing is added to
\* the history.
StackBackupCatch(t, p, message, kind) ==
    LET ws == << <<p.id, "failed", message>> >>
    IN  /\ procs' = [procs EXCEPT ![t] =
                        [p EXCEPT !.pc = "done", !.term = "failed", !.termMsg = message,
                                  !.errs = p.errs \cup {kind}]]
        /\ globalState' = ApplyWrites(globalState, ws)
        /\ history' = history
        /\ running' = Release(t)

\* generateBackupFile after its container.inspect(): the output file and the
\* archive are created and the executor runs archiveContainerInternal up to
\* its own container.inspect().
GenInspectDone(t, ok) ==
    /\ t \in 1..Len(procs)
    /\ procs[t].pc = "gen_inspect"
    /\ LET p == procs[t]
       IN  IF ok
           THEN LET ws == << <<p.id, "processing", "Step: Inspecting Container...">> >>
                IN  /\ procs' = [procs EXCEPT ![t] =
                                    [p EXCEPT !.pc = "await_archive", !.promise = "pending",
                                              !.file = "partial", !.members = <<p.id>>,
                                              !.idx = 1, !.ex = "inspect"]]
                    /\ globalState' = ApplyWrites(globalState, ws)
                    /\ UNCHANGED <<history, running>>
           ELSE ProcessBackupCatch(t, p, "no such container", "NotFound")
    /\ UNCHANGED <<queue, stacks, telegram, added, engine, rewriter, sideState>>

\* ------------------------------------------------------- the stack backup

\* The results docker.listContainers({all: true}) may give.
ListChoices == { <<"c1", "c2", "c3">>, <<"c2", "c3">>, <<"c3">>, <<>> }

\* The member filter: the containers carrying the project label, or, when
\* there is none, those whose service label names a service of the stored
\* definition.
stackContainers(listed) ==
    LET ByProject(c) == Project(c) = StackName
        ByService(c) == stacks.imported /\ ServiceOf(c) \in StoredServices
    IN  IF SelectSeq(listed, ByProject) # <<>> THEN SelectSeq(listed, ByProject)
        ELSE SelectSeq(listed, ByService)

\* The entries the stack backup's executor appends before the service loop.
StackPreambleYamlFirst ==
    (IF stacks.imported THEN <<Entry("", "docker-compose.yml", "")>> ELSE <<>>)
        \o <<Entry("", "stack_metadata.json", "")>>
        \o (IF stacks.imported /\ stacks.hasEnv THEN <<Entry("", ".env", "")>> ELSE <<>>)

StackPreamble ==
    <<Entry("", "stack_metadata.json", "")>>
        \o (IF stacks.imported THEN <<Entry("", "docker-compose.yml", "")>> ELSE <<>>)
        \o (IF stacks.imported /\ stacks.hasEnv THEN <<Entry("", ".env", "")>> ELSE <<>>)

\* triggerUnifiedStackBackup after docker.listContainers: the member filter,
\* then the output file, the archive and the executor up to the first
\* container.inspect() of the service loop.
StackListDone(t, ok, listed) ==
    /\ t \in 1..Len(procs)
    /\ procs[t].pc = "list"
    /\ LET p == [procs[t] EXCEPT !.listed = IF ok THEN listed ELSE <<>>]
           members == stackContainers(listed)
       IN  IF ok /\ members # <<>>
           THEN LET ws == (IF stacks.imported /\ stacks.hasEnv
                           THEN << <<p.id, "processing", "Including environment variables...">> >>
                           ELSE <<>>)
                          \o << <<p.id, "processing", "Archiving Service">>,
                                <<members[1], "processing", "Step: Inspecting Container...">> >>
                IN  /\ procs' = [procs EXCEPT ![t] =
                                    [p EXCEPT !.pc = "await_archive", !.promise = "pending",
                                              !.file = "partial", !.members = members,
                                              !.idx = 1, !.ex = "inspect",
                                              !.archive = StackPreamble]]
                    /\ globalState' = ApplyWrites(globalState, ws)
                    /\ UNCHANGED <<history, running>>
           ELSE IF ok
                THEN StackBackupCatch(t, p, "No containers found for stack", "StackEmpty")
                ELSE StackBackupCatch(t, p, "engine unavailable", "EngineUnavailable")
    /\ UNCHANGED <<queue, stacks, telegram, added, engine, rewriter, sideState>>

\* ------------------------------------------- archiveContainerInternal steps

ExecutorStep(t, r) ==
    /\ procs' = [procs EXCEPT ![t] = r.p]
    /\ globalState' = ApplyWrites(globalState, r.ws)
    /\ UNCHANGED <<queue, running, history, stacks, telegram, added, engine, rewriter, sideState>>

\* After container.inspect(): the dump branch for a database image, then (or
\* at once) the volume/config step.
ExInspectDone(t, ok) ==
    /\ t \in 1..Len(procs)
    /\ procs[t].ex = "inspect"
    /\ LET p == procs[t]
           c == Cur(p)
       IN  IF ~ok
           THEN ExecutorStep(t, [p |-> ExecutorThrows(p, "no such container", "NotFound"),
                                 ws |-> <<>>])
           ELSE IF IsDbImage(Image(c))
                THEN ExecutorStep(t,
                         [p |-> [p EXCEPT !.ex = "dump"],
                          ws |-> << <<c, "processing", "Step: DB Strategy Detected">>,
                                    <<c, "processing", "Step: Executing Dump...">> >>])
                ELSE ExecutorStep(t, VolumeStep(p))

DumpOutcomes == {"ok", "empty", "error", "timeout"}

\* After the dump's exec and its stream promise have settled.
ExDumpDone(t, outcome) ==
    /\ t \in 1..Len(procs)
    /\ procs[t].ex = "dump"
    /\ LET p == procs[t]
           c == Cur(p)
       IN  CASE outcome = "ok" ->
                    ExecutorStep(t, VolumeStep(
                        [p EXCEPT !.archive =
                             Append(p.archive, Entry(PrefixOf(p.kind, c), "dump.sql", ""))]))
             [] outcome = "empty" ->
                    ExecutorStep(t, [p |-> ExecutorThrows(p, "Empty SQL Dump", "CaptureEmpty"),
                                     ws |-> <<>>])
             [] outcome = "timeout" ->
                    ExecutorStep(t, [p |-> ExecutorThrows(p, "DB Dump timeout", "Timeout"),
                                     ws |-> <<>>])
             [] OTHER ->
                    ExecutorStep(t, [p |-> ExecutorThrows(p, "exec error", "CaptureFailed"),
                                     ws |-> <<>>])

\* After container.getArchive({path}) of the first remaining path: the tar
\* entry, or the ERROR_ entry when it threw; then the next path or the return.
ExPathDoneThrows(t, ok) ==
    /\ t \in 1..Len(procs)
    /\ procs[t].ex = "path"
    /\ LET p == procs[t]
           c == Cur(p)
           path == Head(p.paths)
           rest == Tail(p.paths)
           q == [p EXCEPT !.archive = Append(p.archive, Entry(PrefixOf(p.kind, c), "tar", path)),
                          !.paths = rest]
       IN  IF ~ok
           THEN ExecutorStep(t, [p |-> ExecutorThrows(p, "getArchive failed", "CaptureWarning"),
                                 ws |-> <<>>])
           ELSE IF rest # <<>>
                THEN ExecutorStep(t, [p |-> q, ws |-> << <<c, "processing", "Archiving: path">> >>])
                ELSE ExecutorStep(t, ReturnFromArchive(q))

ExPathDone(t, ok) ==
    /\ t \in 1..Len(procs)
    /\ procs[t].ex = "path"
    /\ LET p == procs[t]
           c == Cur(p)
           prefix == PrefixOf(p.kind, c)
           path == Head(p.paths)
           rest == Tail(p.paths)
           q == [p EXCEPT !.archive =
                     Append(p.archive,
                            IF ok THEN Entry(prefix, "tar", path)
                            ELSE Entry(prefix, "ERROR", path)),
                          !.paths = rest,
                          !.errs = IF ok THEN p.errs ELSE p.errs \cup {"CaptureWarning"}]
       IN  IF rest # <<>>
           THEN ExecutorStep(t, [p |-> q, ws |-> << <<c, "processing", "Archiving: path">> >>])
           ELSE ExecutorStep(t, ReturnFromArchive(q))

\* ------------------------------------------------------------ handleUpload

\* handleUpload up to its first await (fetch), or to its end when Telegram is
\* not configured.
HandleUploadBegin(t, p) ==
    IF telegram
    THEN LET ws == << <<p.id, "uploading", "Sending to Telegram...">> >>
         IN  /\ procs' = [procs EXCEPT ![t] = [p EXCEPT !.pc = "upload"]]
             /\ globalState' = ApplyWrites(globalState, ws)
             /\ UNCHANGED <<history, running>>
    ELSE LET ws == << <<p.id, "completed", "Saved to local disk">> >>
         IN  /\ procs' = [procs EXCEPT ![t] = [p EXCEPT !.pc = "done", !.term = "completed",
                                          !.termMsg = "Saved to local disk"]]
             /\ globalState' = ApplyWrites(globalState, ws)
             /\ history' = addHistoryEntry(history,
                               HistoryEntry(t, "file", "success", "local", "Saved to local disk"))
             /\ running' = Release(t)

\* The output stream's close event after archive.finalize(): the timer is
\* cleared and resolve() is called; a still pending Promise resolves and the
\* handler goes on to handleUpload.
OutputClose(t) ==
    /\ t \in 1..Len(procs)
    /\ procs[t].ex = "closing"
    /\ LET p == procs[t]
           q == [p EXCEPT !.ex = "finished", !.file = "complete"]
       IN  IF p.promise = "pending"
           THEN HandleUploadBegin(t, [q EXCEPT !.promise = "resolved"])
           ELSE /\ procs' = [procs EXCEPT ![t] = q]
                /\ UNCHANGED <<globalState, history, running>>
    /\ UNCHANGED <<queue, stacks, telegram, added, engine, rewriter, sideState>>

\* The setTimeout of generateBackupFile (400 s) or of the stack backup (600 s)
\* fires while the Promise is pending: reject(), and the handler's catch runs.
\* The executor is not stopped.
Timeout(t) ==
    /\ t \in 1..Len(procs)
    /\ procs[t].promise = "pending"
    /\ LET p == [procs[t] EXCEPT !.promise = "rejected"]
       IN  IF p.kind = "stack"
           THEN StackBackupCatch(t, p, "Unified Backup timeout", "Timeout")
           ELSE ProcessBackupCatch(t, p, "Backup timed out", "Timeout")
    /\ UNCHANGED <<queue, stacks, telegram, added, engine, rewriter, sideState>>

\* handleUpload after the fetch to Telegram.
UploadDoneKeepsFile(t, ok) ==
    /\ t \in 1..Len(procs)
    /\ procs[t].pc = "upload"
    /\ LET p == procs[t]
           ws == IF ok THEN << <<p.id, "completed", "Sent to Telegram & Cleaned">> >>
                 ELSE << <<p.id, "completed", "Saved Local (Telegram Failed)">> >>
       IN  /\ procs' = [procs EXCEPT ![t] =
                           [p EXCEPT !.pc = "done", !.term = "completed", !.termMsg = ws[1][3],
                                     !.errs = IF ok THEN p.errs ELSE p.errs \cup {"UploadFailed"}]]
           /\ globalState' = ApplyWrites(globalState, ws)
           /\ history' = addHistoryEntry(history,
                             IF ok THEN HistoryEntry(t, "file", "success", "telegram",
                                                     "Backup sent to Telegram")
                             ELSE HistoryEntry(t, "file", "failed", "local",
                                               "Telegram upload failed"))
           /\ running' = Release(t)
    /\ UNCHANGED <<queue, stacks, telegram, added, engine, rewriter, sideState>>

UploadDoneStrict(t, ok) ==
    /\ t \in 1..Len(procs)
    /\ procs[t].pc = "upload"
    /\ LET p == procs[t]
           ws == IF ok THEN << <<p.id, "completed", "Sent to Telegram & Cleaned">> >>
                 ELSE << <<p.id, "failed", "Telegram upload failed">> >>
       IN  /\ procs' = [procs EXCEPT ![t] =
                           [p EXCEPT !.pc = "done", !.term = ws[1][2], !.termMsg = ws[1][3],
                                     !.file = IF ok THEN "deleted" ELSE p.file,
                                     !.errs = IF ok THEN p.errs ELSE p.errs \cup {"UploadFailed"}]]
           /\ globalState' = ApplyWrites(globalState, ws)
           /\ history' = addHistoryEntry(history,
                             IF ok THEN HistoryEntry(t, "file", "success", "telegram",
                                                     "Backup sent to Telegram")
                             ELSE HistoryEntry(t, "file", "failed", "local",
                                               "Telegram upload failed"))
           /\ running' = Release(t)
    /\ UNCHANGED <<queue, stacks, telegram, added, engine, rewriter, sideState>>

UploadDone(t, ok) ==
    /\ t \in 1..Len(procs)
    /\ procs[t].pc = "upload"
    /\ LET p == procs[t]
           ws == IF ok THEN << <<p.id, "completed", "Sent to Telegram & Cleaned">> >>
                 ELSE << <<p.id, "completed", "Saved Local (Telegram Failed)">> >>
       IN  /\ procs' = [procs EXCEPT ![t] =
                           [p EXCEPT !.pc = "done", !.term = "completed", !.termMsg = ws[1][3],
                                     !.file = IF ok THEN "deleted" ELSE p.file,
                                     !.errs = IF ok THEN p.errs ELSE p.errs \cup {"UploadFailed"}]]
           /\ globalState' = ApplyWrites(globalState, ws)
           /\ history' = addHistoryEntry(history,
                             IF ok THEN HistoryEntry(t, "file", "success", "telegram",
                                                     "Backup sent to Telegram")
                             ELSE HistoryEntry(t, "file", "failed", "local",
                                               "Telegram upload failed"))
           /\ running' = Release(t)
    /\ UNCHANGED <<queue, stacks, telegram, added, engine, rewriter, sideState>>

\* ------------------------------------------------------------ the restores

\* A handler that is not a queue task makes its terminal write and returns.
Finish(p, status, message, kind) ==
    [p EXCEPT !.pc = "done", !.term = status, !.termMsg = message,
              !.errs = IF kind = "" THEN p.errs ELSE p.errs \cup {kind}]

\* A catch that only logs: the handler returns without a terminal write.
ReturnSilently(p, kind) == [p EXCEPT !.pc = "done", !.errs = p.errs \cup {kind}]

\* restoreBackup(file, c) up to its first await; a missing file throws into
\* the catch, which only logs.
RestoreBackupCall(c, fileExists) ==
    /\ Len(procs) < MaxRestores
    /\ LET p == NewProc("restore", c, "direct", <<>>, "restore_internal")
           ws == << <<c, "processing", "Restoring...">> >>
       IN  /\ procs' = Append(procs, IF fileExists THEN p ELSE ReturnSilently(p, "NotFound"))
           /\ globalState' = ApplyWrites(globalState, ws)
    /\ UNCHANGED <<queue, running, history, stacks, telegram, added, engine, rewriter, sideState>>

\* restoreBackup after restoreContainerInternal: a failed putArchive is only a
\* warning, restoreSqlInternal returns at once without a dump and otherwise
\* writes 'Database Restored.' in its finally, whether it threw or not.
RestoreInternalDone(t, hasDump, ok) ==
    /\ t \in 1..Len(procs)
    /\ procs[t].pc = "restore_internal"
    /\ ok \/ hasDump
    /\ LET p == procs[t]
           sql == IF hasDump
                  THEN << <<p.id, "processing", "Found SQL Dump. Restoring Database...">>,
                          <<p.id, "processing", "Database Restored.">> >>
                  ELSE <<>>
       IN  IF ok
           THEN /\ procs' = [procs EXCEPT ![t] =
                                [p EXCEPT !.pc = "restore_inspect", !.term = "completed",
                                          !.termMsg = "Restored Successfully"]]
                /\ globalState' = ApplyWrites(globalState,
                                      sql \o << <<p.id, "completed", "Restored Successfully">> >>)
           ELSE /\ procs' = [procs EXCEPT ![t] = ReturnSilently(p, "ReplayFailed")]
                /\ globalState' = ApplyWrites(globalState, sql)
    /\ UNCHANGED <<queue, running, history, stacks, telegram, added, engine, rewriter, sideState>>

\* restoreBackup after the container.inspect() that follows the completed
\* write: the history entry, or the logging catch.
RestoreInspectDone(t, ok) ==
    /\ t \in 1..Len(procs)
    /\ procs[t].pc = "restore_inspect"
    /\ LET p == procs[t]
       IN  IF ok
           THEN /\ procs' = [procs EXCEPT ![t] = [p EXCEPT !.pc = "done"]]
                /\ history' = addHistoryEntry(history,
                                  HistoryEntry(t, p.id, "success", "local", "Restored from file"))
           ELSE /\ procs' = [procs EXCEPT ![t] = ReturnSilently(p, "NotFound")]
                /\ history' = history
    /\ UNCHANGED <<globalState, queue, running, stacks, telegram, added, engine, rewriter, sideState>>

\* What the file handed to restoreToNewContainer may be.
CloneArtifacts == {"missing", "invalid", "single", "legacy"}

\* Paths are sequences of tokens; "/" and "_" are tokens of their own and no
\* other token contains either.
DataPath == <<"/", "data">>

ConfigPath == <<"/", "etc", "/", "my", "_", "app">>

\* s with every token a replaced by b (String.replace with a global regex).
ReplaceAll(s, a, b) == [i \in 1..Len(s) |-> IF s[i] = a THEN b ELSE s[i]]

\* s without its first token a (String.replace with a string pattern).
RemoveFirst(s, a) ==
    LET hits == {i \in 1..Len(s) : s[i] = a}
    IN  IF hits = {} THEN s
        ELSE LET k == CHOOSE i \in hits : \A j \in hits : i <= j
             IN  SubSeq(s, 1, k - 1) \o SubSeq(s, k + 1, Len(s))

\* path.dirname of an absolute path.
dirname(path) ==
    LET slashes == {i \in 1..Len(path) : path[i] = "/"}
        last == CHOOSE i \in slashes : \A j \in slashes : j <= i
    IN  IF last = 1 THEN <<"/">> ELSE SubSeq(path, 1, last - 1)

\* The name archiveContainerInternal gives the tar of volPath in the archive
\* of a single-container backup (prefix ''): volumes/<safeName>.
volumeEntry(volPath) ==
    LET flat == ReplaceAll(ReplaceAll(volPath, "/", "_"), "\\", "_")
        safeName == (IF flat # <<>> /\ flat[1] = "_" THEN Tail(flat) ELSE flat) \o <<".tar">>
    IN  <<"volumes", "/">> \o safeName

\* The directory restoreToNewContainer extracts the tar entry entryName into.
cloneParentDir(entryName) ==
    LET decoded == RemoveFirst(ReplaceAll(entryName, "_", "/"), ".tar")
        originalPath == IF decoded # <<>> /\ decoded[1] = "/" THEN decoded
                        ELSE <<"/">> \o decoded
    IN  dirname(originalPath)

\* The config.json of the backed-up container as far as the clone reads it:
\* the names of its networks and the paths whose tars the archive holds.
CloneConfig(networks, paths) == [networks |-> networks, paths |-> paths]

CloneConfigs ==
    { CloneConfig(n, q) : n \in {<<>>, <<"appnet">>, <<"appnet", "backnet">>},
                          q \in {<<DataPath>>, <<DataPath, ConfigPath>>} }

\* The clone before anything is known of it.
NoClone ==
    [config |-> CloneConfig(<<>>, <<>>), endpoints |-> {}, exists |-> FALSE,
     running |-> FALSE, puts |-> <<>>, failedAt |-> ""]

\* docker.getNetwork(n).inspect() succeeds on engine e.
networkExists(e, n) == n = "bridge" \/ n \in e.networks

\* The keys of NetworkingConfig.EndpointsConfig that restoreToNewContainer
\* builds without a network override; inspectOk is false when the inspect of
\* an existing network throws for another reason.
cloneEndpoints(networks, e, inspectOk) ==
    LET targetNet == IF networks # <<>> THEN networks[1] ELSE "bridge"
        found == networkExists(e, targetNet) /\ inspectOk
        fallback == IF found THEN {} ELSE {"bridge"}
    IN  IF targetNet \in fallback THEN fallback ELSE fallback \cup {targetNet}

\* restoreToNewContainer(file, undefined, jobId) up to its first await.
CloneCall(artifact, config) ==
    /\ Len(procs) < MaxRestores
    /\ artifact # "single" => config = NoClone.config
    /\ LET t == Len(procs) + 1
           id == CloneIds[t]
           p == [NewProc("clone", id, "direct", <<>>, "clone_image")
                     EXCEPT !.clone.config = config]
       IN  CASE artifact = "missing" ->
                    /\ procs' = Append(procs, Finish(p, "failed", "File not found", "NotFound"))
                    /\ globalState' = ApplyWrites(globalState,
                                          << <<id, "failed", "File not found">> >>)
             [] artifact = "invalid" ->
                    /\ procs' = Append(procs, Finish(p, "failed",
                                           "Invalid Backup: config.json missing", "ParseError"))
                    /\ globalState' = ApplyWrites(globalState,
                                          << <<id, "failed", "Invalid Backup: config.json missing">> >>)
             [] artifact = "single" ->
                    /\ procs' = Append(procs, p)
                    /\ globalState' = ApplyWrites(globalState,
                                          << <<id, "processing", "Creating container">> >>)
             [] OTHER ->
                    /\ procs' = Append(procs, [p EXCEPT !.pc = "clone_legacy"])
                    /\ globalState' = ApplyWrites(globalState,
                                          << <<id, "processing", "Detected Stack Backup">>,
                                             <<id, "processing", "Creating Stack Network">> >>)
    /\ UNCHANGED <<queue, running, history, stacks, telegram, added, engine, rewriter, sideState>>

\* A step of the clone threw: the catch of restoreToNewContainer writes failed
\* and returns; nothing is stopped or removed.
CloneFail(t, step) ==
    /\ procs' = [procs EXCEPT ![t] =
                    Finish([procs[t] EXCEPT !.clone.failedAt = step],
                           "failed", "engine error", "DeployFailed")]
    /\ globalState' = ApplyWrites(globalState, << <<procs[t].id, "failed", "engine error">> >>)

\* restoreToNewContainer after the image has been found or pulled, or the
\* pull failed; the first original network is about to be inspected.
CloneImageDone(t, ok) ==
    /\ t \in 1..Len(procs)
    /\ procs[t].pc = "clone_image"
    /\ IF ok
       THEN /\ procs' = [procs EXCEPT ![t].pc = "clone_network"]
            /\ globalState' = globalState
       ELSE CloneFail(t, "pull")
    /\ UNCHANGED <<queue, running, history, stacks, telegram, added, engine, rewriter, sideState>>

\* restoreToNewContainer after the inspect of the target network: the
\* endpoints are chosen (the archive's config has no port bindings and no
\* binds) and createContainer is called.
CloneNetworkDone(t, inspectOk) ==
    /\ t \in 1..Len(procs)
    /\ procs[t].pc = "clone_network"
    /\ LET p == procs[t]
           targetNet == IF p.clone.config.networks # <<>> THEN p.clone.config.networks[1]
                        ELSE "bridge"
           found == networkExists(engine, targetNet) /\ inspectOk
       IN  /\ procs' = [procs EXCEPT ![t] =
                           [p EXCEPT !.pc = "clone_create",
                                     !.clone.endpoints =
                                         cloneEndpoints(p.clone.config.networks, engine, inspectOk)]]
           /\ globalState' = IF found THEN globalState
                             ELSE ApplyWrites(globalState,
                                      << <<p.id, "processing", "Network not found, using 'bridge'">> >>)
    /\ UNCHANGED <<queue, running, history, stacks, telegram, added, engine, rewriter, sideState>>

\* restoreToNewContainer after createContainer: the container exists and is
\* about to be started, or the creation failed.
CloneCreateDone(t, ok) ==
    /\ t \in 1..Len(procs)
    /\ procs[t].pc = "clone_create"
    /\ IF ok
       THEN /\ procs' = [procs EXCEPT ![t] =
                            [@ EXCEPT !.pc = "clone_start", !.clone.exists = TRUE]]
            /\ globalState' = ApplyWrites(globalState,
                                  << <<procs[t].id, "processing", "Starting container...">> >>)
       ELSE CloneFail(t, "create")
    /\ UNCHANGED <<queue, running, history, stacks, telegram, added, engine, rewriter, sideState>>

CloneStartDoneRemoves(t, ok) ==
    /\ t \in 1..Len(procs)
    /\ procs[t].pc = "clone_start"
    /\ procs' = [procs EXCEPT ![t] =
                    Finish([@ EXCEPT !.clone.failedAt = "start", !.clone.exists = FALSE],
                           "failed", "engine error", "DeployFailed")]
    /\ globalState' = ApplyWrites(globalState, << <<procs[t].id, "failed", "engine error">> >>)
    /\ UNCHANGED <<queue, running, history, stacks, telegram, added, engine, rewriter, sideState>>

\* restoreToNewContainer after container.start(): the container runs and the
\* data is about to be put, or the start failed.
CloneStartDone(t, ok) ==
    /\ t \in 1..Len(procs)
    /\ procs[t].pc = "clone_start"
    /\ IF ok
       THEN /\ procs' = [procs EXCEPT ![t] =
                            [@ EXCEPT !.pc = "clone_work", !.clone.running = TRUE]]
            /\ globalState' = ApplyWrites(globalState,
                                  << <<procs[t].id, "processing", "Restoring data into volumes...">> >>)
       ELSE CloneFail(t, "start")
    /\ UNCHANGED <<queue, running, history, stacks, telegram, added, engine, rewriter, sideState>>

\* restoreToNewContainer at its end.  Single mode: every tar entry of the
\* archive has been put into the directory decoded from its name, a failed
\* put being logged only (ok is false when one failed), and the job is
\* completed.  Legacy stack mode: the children have been restored.
CloneDone(t, ok) ==
    /\ t \in 1..Len(procs)
    /\ procs[t].pc \in {"clone_work", "clone_legacy"}
    /\ LET p == procs[t]
           single == p.pc = "clone_work"
           paths == p.clone.config.paths
           puts == [i \in 1..Len(paths) |->
                       <<paths[i], cloneParentDir(volumeEntry(paths[i]))>>]
           q == IF single
                THEN [p EXCEPT !.clone.puts = puts,
                               !.clone.failedAt = IF ok THEN "" ELSE "inject"]
                ELSE p
           done == ok \/ single
           msg == IF done THEN (IF single THEN "Restored successfully as clone" ELSE "Stack Restored")
                  ELSE "Stack Restored with errors"
           status == IF done THEN "completed" ELSE "failed"
       IN  /\ procs' = [procs EXCEPT ![t] =
                           Finish(q, status, msg, IF done THEN "" ELSE "DeployFailed")]
           /\ globalState' = ApplyWrites(globalState, << <<p.id, status, msg>> >>)
           /\ history' = IF single
                         THEN addHistoryEntry(history,
                                  HistoryEntry(t, "clone", "success", "local", "Cloned from file"))
                         ELSE history
    /\ UNCHANGED <<queue, running, stacks, telegram, added, engine, rewriter, sideState>>

\* What the file handed to restoreUnifiedStackBackup may be.
StackArtifacts == {"missing", "nometadata", "nocompose", "good"}

\* A top-level network of a manifest: its key, the form of its external
\* property ("none", "true", "string" or "map"), the name that property
\* carries, and its own name property ("" when there is none).
Network(key, external, externalName, name) ==
    [key |-> key, external |-> external, externalName |-> externalName, name |-> name]

\* The networks sections of the restored manifests.
NetworkChoices ==
    { <<>>,
      << Network("proxy", "true", "", ""), Network("front", "none", "", "") >>,
      << Network("edge", "string", "edge_net", ""),
         Network("data", "map", "data_net", ""),
         Network("logs", "true", "", "logs_net") >> }

\* The networks the engine has when the program starts.
InitialNetworks == { {}, {"proxy"}, {"edge_net", "logs_net"} }

\* How many createNetwork calls the engine answers before it fails one.
NetworkQuotas == 0..3

\* The name ensureExternalNetworks looks an external network up under.
actualName(n) ==
    IF n.external = "string" THEN n.externalName
    ELSE IF n.external = "map" /\ n.externalName # "" THEN n.externalName
    ELSE IF n.name # "" THEN n.name
    ELSE n.key

\* The loop of ensureExternalNetworks from declaration i on: existingNames is
\* the listing taken before the loop, a missing network is created as a
\* bridge, and a createNetwork that fails ends the loop.
RECURSIVE ensureFrom(_, _, _, _, _)
ensureFrom(nets, i, existingNames, quota, acc) ==
    IF i > Len(nets) THEN acc
    ELSE IF nets[i].external = "none" \/ actualName(nets[i]) \in existingNames
         THEN ensureFrom(nets, i + 1, existingNames, quota, acc)
    ELSE IF quota = 0
         THEN [acc EXCEPT !.threw = TRUE,
                          !.calls = Append(@, <<"createNetwork", actualName(nets[i]), "bridge">>)]
    ELSE ensureFrom(nets, i + 1, existingNames, quota - 1,
                    [acc EXCEPT !.networks = @ \cup {actualName(nets[i])},
                                !.calls = Append(@, <<"createNetwork", actualName(nets[i]), "bridge">>)])

ensureExternalNetworksNoCreate(nets, networks, listOk, quota) ==
    [networks |-> networks, calls |-> <<>>, threw |-> FALSE]

\* ensureExternalNetworks(resolvedYaml) on an engine that has `networks`: the
\* engine's networks afterwards, the calls made, and whether the catch that
\* only logs was entered.
ensureExternalNetworks(nets, networks, listOk, quota) ==
    IF nets = <<>> THEN [networks |-> networks, calls |-> <<>>, threw |-> FALSE]
    ELSE IF ~listOk THEN [networks |-> networks, calls |-> <<>>, threw |-> TRUE]
    ELSE ensureFrom(nets, 1, networks, quota,
                    [networks |-> networks, calls |-> <<>>, threw |-> FALSE])

StackRestoreCallDeploysFirst(artifact, nets, rewriteOk) ==
    /\ Len(procs) < MaxRestores
    /\ artifact \in {"nocompose", "good"}
    /\ LET t == Len(procs) + 1
           id == StackRestoreIds[t]
           p == [NewProc("stackrestore", id, "direct", <<>>, "deploy")
                     EXCEPT !.artifact = artifact, !.networks = nets]
       IN  /\ procs' = Append(procs, p)
           /\ globalState' = ApplyWrites(globalState,
                                 << <<id, "processing", "Reading backup archive...">> >>)
    /\ UNCHANGED <<queue, running, history, stacks, telegram, added, engine, rewriter, sideState>>

\* restoreUnifiedStackBackup(file) through the conflict pipeline, which
\* probes the host's ports and, when a rewriter throws, goes on with the text
\* it was given; nets is the networks section of the archive's manifest.
StackRestoreCall(artifact, nets, rewriteOk) ==
    /\ Len(procs) < MaxRestores
    /\ artifact # "good" => (nets = <<>> /\ rewriteOk)
    /\ LET t == Len(procs) + 1
           id == StackRestoreIds[t]
           p == [NewProc("stackrestore", id, "direct", <<>>, "deploy")
                     EXCEPT !.artifact = artifact, !.networks = nets,
                            !.volumesBefore = engine.volumes,
                            !.ops = IF artifact = "good" THEN << <<"rewrite", "", "">> >> ELSE <<>>,
                            !.errs = IF rewriteOk THEN {} ELSE {"RewriteFailed"}]
           reading == << <<id, "processing", "Reading backup archive...">> >>
           deploying == reading \o << <<id, "processing", "Deploying stack">> >>
           Fail(ws, m, kind) ==
               /\ procs' = Append(procs, Finish(p, "failed", m, kind))
               /\ globalState' = ApplyWrites(globalState, ws \o << <<id, "failed", m>> >>)
       IN  CASE artifact = "missing" -> Fail(reading, "Backup file not found", "NotFound")
             [] artifact = "nometadata" ->
                    Fail(reading, "Invalid Stack Backup: Missing stack_metadata.json", "ParseError")
             [] artifact = "nocompose" ->
                    Fail(deploying, "docker-compose.yml not found in backup", "ParseError")
             [] OTHER ->
                    /\ procs' = Append(procs, p)
                    /\ globalState' = ApplyWrites(globalState,
                                          deploying \o << <<id, "processing", "Analyzing conflicts...">> >>)
    /\ UNCHANGED <<queue, running, history, stacks, telegram, added, engine, rewriter, sideState>>

\* container.remove({ v: true, force: true }): the container goes, and with
\* it the anonymous volumes attached to it.
removeContainer(e, c) ==
    [e EXCEPT !.containers[c] = "absent", !.volumes = @ \ AnonymousVolumes(c)]

\* How the clean-state block may go: every container of the project stopped
\* and removed, the listing failed, or the stop of the first one failed.
CleanupOutcomes == {"done", "list_failed", "stop_failed"}

\* The clean-state loop over the project's containers: stop, then remove; an
\* error of the stop skips the remove of that container and is ignored.
RECURSIVE cleanupFrom(_, _, _, _)
cleanupFrom(existing, failing, e, calls) ==
    IF existing = <<>> THEN [engine |-> e, calls |-> calls]
    ELSE LET c == Head(existing)
         IN  IF c = failing
             THEN cleanupFrom(Tail(existing), failing, e, Append(calls, <<"stop", c, "">>))
             ELSE cleanupFrom(Tail(existing), failing, removeContainer(e, c),
                              calls \o << <<"stop", c, "">>, <<"remove", c, "">> >>)

\* The clean-state block of restoreUnifiedStackBackup on engine e.
cleanup(e, outcome) ==
    LET Present(c) == e.containers[c] # "absent"
        existing == SelectSeq(ProjectContainers, Present)
    IN  IF outcome = "list_failed" \/ existing = <<>> THEN [engine |-> e, calls |-> <<>>]
        ELSE cleanupFrom(existing, IF outcome = "stop_failed" THEN Head(existing) ELSE "",
                         e, <<>>)

\* restoreUnifiedStackBackup after the conflict pipeline: importStackAction
\* (called without envVars) stores the rewritten definition or fails the
\* restore; the containers of an existing project of that name are stopped
\* and removed; ensureExternalNetworks is called.
StackRestoreImportDone(t, ok, outcome) ==
    /\ t \in 1..Len(procs)
    /\ procs[t].pc = "deploy"
    /\ LET p == procs[t]
           r == cleanup(engine, outcome)
       IN  IF ok
           THEN /\ procs' = [procs EXCEPT ![t] =
                                [p EXCEPT !.pc = "ensure", !.ops = @ \o r.calls]]
                /\ globalState' = ApplyWrites(globalState,
                                      << <<p.id, "processing", "Ensuring external networks exist...">> >>)
                /\ stacks' = [imported |-> TRUE, hasEnv |-> FALSE]
                /\ engine' = r.engine
           ELSE /\ procs' = [procs EXCEPT ![t] =
                                Finish(p, "failed", "Stack Restore Error", "DeployFailed")]
                /\ globalState' = ApplyWrites(globalState,
                                      << <<p.id, "failed", "Stack Restore Error">> >>)
                /\ stacks' = stacks
                /\ engine' = engine
    /\ UNCHANGED <<queue, running, history, telegram, added, rewriter, sideState>>

\* restoreUnifiedStackBackup after ensureExternalNetworks has returned (it
\* never throws): the compose deployer is invoked with `up -d --no-start`.
StackRestoreEnsureDone(t, listOk, quota) ==
    /\ t \in 1..Len(procs)
    /\ procs[t].pc = "ensure"
    /\ LET p == procs[t]
           r == ensureExternalNetworks(p.networks, engine.networks, listOk, quota)
       IN  /\ engine' = [engine EXCEPT !.networks = r.networks]
           /\ procs' = [procs EXCEPT ![t] =
                           [p EXCEPT !.pc = "create",
                                     !.ensureThrew = r.threw,
                                     !.deployedOn = r.networks,
                                     !.ops = @ \o r.calls \o << <<"compose", "up", "">> >>]]
           /\ globalState' = ApplyWrites(globalState,
                                 << <<p.id, "processing", "Creating container infrastructure...">> >>)
    /\ UNCHANGED <<queue, running, history, stacks, telegram, added, rewriter, sideState>>

\* The engine before a stack restore: the stack runs, or the engine has none
\* of its containers and only its named volume.
ExistingStacks ==
    { QuietEngine,
      [QuietEngine EXCEPT !.containers = [c \in Containers |-> "absent"],
                          !.volumes = {"pgdata"}] }

\* How the creation of the containers may end.
DeployOutcomes == {"ok", "create_failed"}

\* `docker-compose up -d --no-start` on engine e: a missing container is
\* created and not started; one that is there is left as it is, or replaced by
\* a new one that is not started when recreate holds.
composeCreate(e, recreate) ==
    [e EXCEPT !.containers =
        [c \in Containers |-> IF @[c] = "absent" \/ recreate THEN "stopped" ELSE @[c]]]

\* The record a helper writes to for container c of the restored stack: the
\* new container's, or the old one's when compose left it in place.
TargetId(p, c) ==
    IF c \notin p.recreated THEN c
    ELSE IF c = "c2" THEN NewDbContainer ELSE NewWebContainer

\* restoreUnifiedStackBackup after the compose deployer has answered: the
\* offline volume phase begins, or the creation failed.
StackRestoreDeployDone(t, outcome, recreate) ==
    /\ t \in 1..Len(procs)
    /\ procs[t].pc = "create"
    /\ LET p == procs[t]
           created == {c \in Containers : engine.containers[c] = "absent" \/ recreate}
       IN  IF outcome = "ok"
           THEN /\ procs' = [procs EXCEPT ![t] =
                                [p EXCEPT !.pc = "volumes", !.recreated = created]]
                /\ globalState' = ApplyWrites(globalState,
                                      << <<p.id, "processing", "Phase 0: Restoring filesystem volumes">> >>)
                /\ engine' = composeCreate(engine, recreate)
           ELSE /\ procs' = [procs EXCEPT ![t] =
                                Finish(p, "failed", "Stack Restore Error", "DeployFailed")]
                /\ globalState' = ApplyWrites(globalState,
                                      << <<p.id, "failed", "Stack Restore Error">> >>)
                /\ engine' = engine
    /\ UNCHANGED <<queue, running, history, stacks, telegram, added, rewriter, sideState>>

\* The putArchive calls of the offline volume phase, one per container, each
\* with the state its container is in.
RECURSIVE putArchives(_, _)
putArchives(targets, e) ==
    IF targets = <<>> THEN <<>>
    ELSE << <<"putArchive", Head(targets), e.containers[Head(targets)]>> >>
             \o putArchives(Tail(targets), e)

\* The writes of restoreVolumesInternal for the containers in targets; a
\* putArchive that failed adds a warning.
RECURSIVE volumeWrites(_, _, _)
volumeWrites(targets, p, pathOk) ==
    IF targets = <<>> THEN <<>>
    ELSE << <<TargetId(p, Head(targets)), "processing", "Restoring Volume (Offline)">> >>
             \o (IF pathOk THEN <<>>
                 ELSE << <<TargetId(p, Head(targets)), "processing", "Warning: Failed to restore">> >>)
             \o volumeWrites(Tail(targets), p, pathOk)

StackRestoreVolumesDoneStartsAll(t, pathOk) ==
    /\ t \in 1..Len(procs)
    /\ procs[t].pc = "volumes"
    /\ procs' = [procs EXCEPT ![t] =
                    [@ EXCEPT !.pc = "boot",
                              !.ops = @ \o putArchives(ProjectContainers, engine)
                                        \o << <<"start", "c1", "">> >>]]
    /\ engine' = [engine EXCEPT !.containers["c1"] = "running"]
    /\ UNCHANGED <<globalState, queue, running, history, stacks, telegram, added, rewriter, sideState>>

\* restoreUnifiedStackBackup after the offline volume phase: every container
\* of the project has had its volume tars put, a failed put being a warning
\* only; the database containers are about to be started.
StackRestoreVolumesDone(t, pathOk) ==
    /\ t \in 1..Len(procs)
    /\ procs[t].pc = "volumes"
    /\ LET p == procs[t]
       IN  /\ procs' = [procs EXCEPT ![t] =
                           [p EXCEPT !.pc = "boot",
                                     !.ops = @ \o putArchives(ProjectContainers, engine),
                                     !.errs = IF pathOk THEN @ ELSE @ \cup {"VolumeWarning"}]]
           /\ globalState' = ApplyWrites(globalState,
                                 volumeWrites(ProjectContainers, p, pathOk)
                                 \o << <<p.id, "processing", "Phase 1: Booting database engines...">> >>)
    /\ UNCHANGED <<queue, running, history, stacks, telegram, added, engine, rewriter, sideState>>

\* restoreUnifiedStackBackup after the database containers (those whose image
\* names a database) have been started, or an inspect or a start threw.
StackRestoreBootDone(t, ok) ==
    /\ t \in 1..Len(procs)
    /\ procs[t].pc = "boot"
    /\ LET p == procs[t]
       IN  IF ok
           THEN /\ procs' = [procs EXCEPT ![t] =
                                [p EXCEPT !.pc = "ready",
                                          !.ops = @ \o << <<"start", "c2", "">> >>]]
                /\ globalState' = ApplyWrites(globalState,
                                      << <<p.id, "processing", "Waiting for database engines to stabilize...">> >>)
                /\ engine' = [engine EXCEPT !.containers["c2"] = "running"]
           ELSE /\ procs' = [procs EXCEPT ![t] =
                                Finish(p, "failed", "Stack Restore Error", "DeployFailed")]
                /\ globalState' = ApplyWrites(globalState,
                                      << <<p.id, "failed", "Stack Restore Error">> >>)
                /\ engine' = engine
    /\ UNCHANGED <<queue, running, history, stacks, telegram, added, rewriter, sideState>>

StackRestoreReadyDoneStrict(t, isReady) ==
    /\ t \in 1..Len(procs)
    /\ procs[t].pc = "ready"
    /\ LET p == procs[t]
       IN  /\ procs' = [procs EXCEPT ![t] =
                           IF isReady THEN [p EXCEPT !.pc = "data", !.ready = TRUE]
                           ELSE Finish(p, "failed", "Stack Restore Error", "ReadinessTimeout")]
           /\ globalState' = ApplyWrites(globalState,
                                 << <<p.id, IF isReady THEN "processing" ELSE "failed",
                                      "Phase 2: Injecting database records">> >>)
    /\ UNCHANGED <<queue, running, history, stacks, telegram, added, engine, rewriter, sideState>>

\* restoreUnifiedStackBackup after the readiness loop: the probe answered
\* within its 30 attempts, or it did not and a warning is logged.
StackRestoreReadyDone(t, isReady) ==
    /\ t \in 1..Len(procs)
    /\ procs[t].pc = "ready"
    /\ LET p == procs[t]
       IN  /\ procs' = [procs EXCEPT ![t] =
                           [p EXCEPT !.pc = "data", !.ready = isReady,
                                     !.errs = IF isReady THEN @ ELSE @ \cup {"ReadinessTimeout"}]]
           /\ globalState' = ApplyWrites(globalState,
                                 << <<p.id, "processing", "Phase 2: Injecting database records">> >>)
    /\ UNCHANGED <<queue, running, history, stacks, telegram, added, engine, rewriter, sideState>>

\* restoreUnifiedStackBackup at its end: the dump has been replayed into the
\* database container (restoreSqlInternal writes to that container's record
\* in its finally; a throw of it is only logged) and `docker-compose up -d`
\* has started the applications, or failed.
StackRestoreDataDone(t, ok, sqlOk) ==
    /\ t \in 1..Len(procs)
    /\ procs[t].pc = "data"
    /\ LET p == procs[t]
           status == IF ok THEN "completed" ELSE "failed"
           msg == IF ok THEN "Stack restored successfully" ELSE "Stack Restore Error"
           q == [p EXCEPT !.ops = @ \o << <<"compose", "up -d", "">> >>,
                          !.errs = IF sqlOk THEN @ ELSE @ \cup {"SqlFailed"}]
       IN  /\ procs' = [procs EXCEPT ![t] =
                           Finish(q, status, msg, IF ok THEN "" ELSE "DeployFailed")]
           /\ globalState' = ApplyWrites(globalState,
                                 << <<TargetId(p, "c2"), "processing", "Database Restored.">>,
                                    <<p.id, "processing", "Phase 3: Powering on applications...">>,
                                    <<p.id, status, msg>> >>)
           /\ history' = IF ok
                         THEN addHistoryEntry(history,
                                  HistoryEntry(t, StackName, "success", "local", msg))
                         ELSE history
           /\ engine' = IF ok
                        THEN [engine EXCEPT !.containers = [c \in Containers |-> "running"]]
                        ELSE engine
    /\ UNCHANGED <<queue, running, stacks, telegram, added, rewriter, sideState>>

\* ------------------------------------- the database phases, per database

\* The dbServices of a restored stack, in the order of targetContainers.
DbServiceChoices ==
    { <<NewDbContainer>>, <<NewDbContainer, SecondDbContainer>>,
      <<SecondDbContainer, NewDbContainer>> }

\* The image of a database container.
DbImage(db) == IF db = NewDbContainer THEN "postgres" ELSE "mysql"

\* restoreUnifiedStackBackup of a good archive whose phases up to the start
\* of the databases succeeded: the readiness loop of the first database
\* begins.
StackRestoreBooted(dbServices) ==
    /\ Len(procs) < MaxDbRestores
    /\ LET t == Len(procs) + 1
           id == StackRestoreIds[t]
           p == [NewProc("stackrestore", id, "direct", <<>>, "probe")
                     EXCEPT !.artifact = "good", !.members = dbServices, !.idx = 1]
       IN  /\ procs' = Append(procs, p)
           /\ globalState' = ApplyWrites(globalState,
                                 << <<id, "processing", "Phase 1: Booting database engines...">>,
                                    <<id, "processing", "Waiting for database engines to stabilize...">> >>)
    /\ UNCHANGED <<queue, running, history, stacks, telegram, added, engine, rewriter, sideState>>

\* The proc after the loop over its current database has ended: the loop of
\* the next database, or the phase named by pc with the first database.
NextDb(p, pc) ==
    IF p.idx < Len(p.members) THEN [p EXCEPT !.idx = @ + 1, !.attempts = 0]
    ELSE [p EXCEPT !.pc = pc, !.idx = 1, !.attempts = 0]

ProbeDoneNoLimit(t, isReady) ==
    /\ t \in 1..Len(procs)
    /\ procs[t].pc = "probe"
    /\ procs[t].attempts < ReadinessAttempts + 1
    /\ procs' = [procs EXCEPT ![t] =
                    IF isReady
                    THEN NextDb([@ EXCEPT !.ops = Append(@, <<"ready", Cur(procs[t]), "">>)], "sql")
                    ELSE [@ EXCEPT !.attempts = @ + 1]]
    /\ globalState' = globalState
    /\ UNCHANGED <<queue, running, history, stacks, telegram, added, engine, rewriter, sideState>>

\* One pass of the readiness loop for the current database: the probe
\* answered ready and the loop breaks, or it did not (or inspect or exec
\* threw) and the loop sleeps and goes on, or ends after its last pass with a
\* warning.  After the last database the SQL phase begins.
ProbeDone(t, isReady) ==
    /\ t \in 1..Len(procs)
    /\ procs[t].pc = "probe"
    /\ procs[t].attempts < ReadinessAttempts
    /\ LET p == [procs[t] EXCEPT !.attempts = @ + 1]
           db == Cur(p)
           q == IF isReady
                THEN NextDb([p EXCEPT !.ops = Append(@, <<"ready", db, "">>)], "sql")
                ELSE IF p.attempts = ReadinessAttempts
                THEN NextDb([p EXCEPT !.ops = Append(@, <<"unready", db, "">>),
                                      !.errs = @ \cup {"ReadinessTimeout"}], "sql")
                ELSE p
       IN  /\ procs' = [procs EXCEPT ![t] = q]
           /\ globalState' = IF q.pc = "sql"
                             THEN ApplyWrites(globalState,
                                      << <<p.id, "processing",
                                           "Phase 2: Injecting database records">> >>)
                             ELSE globalState
    /\ UNCHANGED <<queue, running, history, stacks, telegram, added, engine, rewriter, sideState>>

\* What restoreSqlInternal meets: no dump in the archive, a replay that
\* throws, a replay that ends with a password in the environment, or without.
ReplayOutcomes == {"nodump", "threw", "ok", "ok_nopwd"}

\* The proc after restoreSqlInternal has returned or thrown for the current
\* database: the next database's restoreSqlInternal, or the application boot.
AfterSql(p) ==
    IF p.idx < Len(p.members) THEN [p EXCEPT !.pc = "sql", !.idx = @ + 1]
    ELSE [p EXCEPT !.pc = "apps"]

DbReplayDoneSyncsAll(t, outcome) ==
    /\ t \in 1..Len(procs)
    /\ procs[t].pc = "sql"
    /\ procs' = [procs EXCEPT ![t] =
                    [@ EXCEPT !.pc = "sync",
                              !.ops = @ \o << <<"sync_begin", Cur(procs[t]), "">> >>]]
    /\ globalState' = globalState
    /\ UNCHANGED <<queue, running, history, stacks, telegram, added, engine, rewriter, sideState>>

\* restoreSqlInternal for the current database up to the end of its replay:
\* without a dump it returns at once; a replay that throws runs the finally
\* block and is logged by the caller; after a replay that ended, the
\* credential sync of a Postgres database with a password begins.
DbReplayDone(t, outcome) ==
    /\ t \in 1..Len(procs)
    /\ procs[t].pc = "sql"
    /\ LET p == procs[t]
           db == Cur(p)
           found == << <<db, "processing", "Found SQL Dump. Restoring Database...">> >>
           restored == << <<db, "processing", "Database Restored.">> >>
           replayed == [p EXCEPT !.ops = @ \o << <<"replay_begin", db, "">>,
                                                 <<"replay_end", db, "">> >>]
       IN  CASE outcome = "nodump" ->
                    /\ procs' = [procs EXCEPT ![t] = AfterSql(p)]
                    /\ globalState' = globalState
             [] outcome = "threw" ->
                    /\ procs' = [procs EXCEPT ![t] =
                                    AfterSql([p EXCEPT !.ops = @ \o << <<"replay_begin", db, "">>,
                                                              <<"replay_end", db, "threw">> >>,
                                                       !.errs = @ \cup {"SqlFailed"}])]
                    /\ globalState' = ApplyWrites(globalState, found \o restored)
             [] outcome = "ok" /\ DbImage(db) = "postgres" ->
                    /\ procs' = [procs EXCEPT ![t] =
                                    [replayed EXCEPT !.pc = "sync",
                                                     !.ops = Append(@, <<"sync_begin", db, "">>)]]
                    /\ globalState' = ApplyWrites(globalState, found)
             [] OTHER ->
                    /\ procs' = [procs EXCEPT ![t] = AfterSql(replayed)]
                    /\ globalState' = ApplyWrites(globalState, found \o restored)
    /\ UNCHANGED <<queue, running, history, stacks, telegram, added, engine, rewriter, sideState>>

\* restoreSqlInternal after the credential sync of the current database,
\* whose errors are swallowed.
DbSyncDone(t) ==
    /\ t \in 1..Len(procs)
    /\ procs[t].pc = "sync"
    /\ LET p == procs[t]
           db == Cur(p)
       IN  /\ procs' = [procs EXCEPT ![t] =
                           AfterSql([p EXCEPT !.ops = Append(@, <<"sync_end", db, "">>)])]
           /\ globalState' = ApplyWrites(globalState,
                                 << <<db, "processing", "Database Restored.">> >>)
    /\ UNCHANGED <<queue, running, history, stacks, telegram, added, engine, rewriter, sideState>>

\* restoreUnifiedStackBackup at its end: `docker-compose up -d` has started
\* the applications, or failed.
AppsUpDone(t, ok) ==
    /\ t \in 1..Len(procs)
    /\ procs[t].pc = "apps"
    /\ LET p == procs[t]
           status == IF ok THEN "completed" ELSE "failed"
           msg == IF ok THEN "Stack restored successfully" ELSE "Stack Restore Error"
           q == [p EXCEPT !.ops = Append(@, <<"compose", "up -d", "">>)]
       IN  /\ procs' = [procs EXCEPT ![t] =
                           Finish(q, status, msg, IF ok THEN "" ELSE "DeployFailed")]
           /\ globalState' = ApplyWrites(globalState,
                                 << <<p.id, "processing", "Phase 3: Powering on applications...">>,
                                    <<p.id, status, msg>> >>)
           /\ history' = IF ok
                         THEN addHistoryEntry(history,
                                  HistoryEntry(t, StackName, "success", "local", msg))
                         ELSE history
    /\ UNCHANGED <<queue, running, stacks, telegram, added, engine, rewriter, sideState>>

\* ---------------------------------------------------- the conflict rewriter

\* A key of a service: absent, present with a truthy value, or present with
\* an empty one (null or "").
KeyStates == {"absent", "set", "empty"}

\* A port mapping of a service; plain is the form H:C of two numbers, every
\* other form (an address prefix, a protocol suffix, the long syntax) is not.
Mapping(h, c, plain) == [host |-> h, container |-> c, plain |-> plain]

\* The host ports the manifests and the host states are built from.
PortChoices == {8080, 8081, 65534, 65535}

\* A compose manifest as text: broken YAML, a document without services, or a
\* document whose services are <<name, service>> pairs in document order.
\* dumped tells the text yaml.dump writes from the text it was given.
yamlLoad(text) == [kind |-> text.kind, services |-> text.services]

yamlDump(doc) == [kind |-> doc.kind, dumped |-> TRUE, services |-> doc.services]

\* net.Server.listen refuses a port above 65535 by throwing; otherwise the
\* port is free if the bind succeeds and, when the engine answers, no listed
\* container publishes it.
isPortAvailable(port, e) ==
    IF port > PortLimit THEN "throw"
    ELSE IF port \in e.bound THEN "busy"
    ELSE IF e.up /\ port \in e.published THEN "busy"
    ELSE "free"

RECURSIVE findAvailablePort(_, _)
findAvailablePort(port, e) ==
    LET a == isPortAvailable(port, e)
    IN  IF a = "throw" THEN [threw |-> TRUE, port |-> port]
        ELSE IF a = "busy" /\ port < PortLimit THEN findAvailablePort(port + 1, e)
        ELSE [threw |-> FALSE, port |-> port]

\* One port mapping of resolvePortConflicts' inner loop.
rewriteMappingNoProbe(m, name, e) ==
    IF ~m.plain \/ isPortAvailable(m.host, e) = "free"
    THEN [threw |-> FALSE, mapping |-> m, records |-> <<>>]
    ELSE [threw |-> FALSE, mapping |-> [m EXCEPT !.host = m.host + 1],
          records |-> << <<name, m.host, m.host + 1>> >>]

rewriteMapping(m, name, e) ==
    IF ~m.plain THEN [threw |-> FALSE, mapping |-> m, records |-> <<>>]
    ELSE LET a == isPortAvailable(m.host, e)
         IN  IF a = "throw" THEN [threw |-> TRUE, mapping |-> m, records |-> <<>>]
             ELSE IF a = "free" THEN [threw |-> FALSE, mapping |-> m, records |-> <<>>]
             ELSE LET r == findAvailablePort(m.host + 1, e)
                  IN  [threw |-> r.threw,
                       mapping |-> [m EXCEPT !.host = r.port],
                       records |-> << <<name, m.host, r.port>> >>]

RECURSIVE rewritePorts(_, _, _)
rewritePorts(ports, name, e) ==
    IF ports = <<>> THEN [threw |-> FALSE, ports |-> <<>>, records |-> <<>>]
    ELSE LET r == rewriteMapping(ports[1], name, e)
             rest == rewritePorts(Tail(ports), name, e)
         IN  [threw |-> r.threw \/ rest.threw,
              ports |-> <<r.mapping>> \o rest.ports,
              records |-> r.records \o rest.records]

\* The loop over Object.entries(doc.services); reading a key of a null service
\* throws a TypeError.
RECURSIVE rewriteServices(_, _)
rewriteServices(services, e) ==
    IF services = <<>> THEN [threw |-> FALSE, services |-> <<>>, records |-> <<>>]
    ELSE LET name == services[1][1]
             svc == services[1][2]
             r == IF svc.null THEN [threw |-> TRUE, ports |-> <<>>, records |-> <<>>]
                  ELSE rewritePorts(svc.ports, name, e)
             rest == rewriteServices(Tail(services), e)
         IN  [threw |-> r.threw \/ rest.threw,
              services |-> << <<name, [svc EXCEPT !.ports = r.ports]>> >> \o rest.services,
              records |-> r.records \o rest.records]

\* Every throw lands in the catch, which returns the text it was given.
resolvePortConflicts(text, e) ==
    IF text.kind # "doc" THEN [yaml |-> text, remappings |-> <<>>]
    ELSE LET r == rewriteServices(yamlLoad(text).services, e)
         IN  IF r.threw THEN [yaml |-> text, remappings |-> <<>>]
             ELSE [yaml |-> yamlDump([kind |-> "doc", services |-> r.services]),
                   remappings |-> r.records]

\* delete service.key, done only when the value is truthy.
DeleteIfSet(k) == IF k = "set" THEN "absent" ELSE k

\* The per-service edits of the four key strippers.
stripContainerName(svc) == [svc EXCEPT !.container_name = DeleteIfSet(@)]

stripStaticIps(svc) ==
    IF svc.networks.form = "map"
    THEN [svc EXCEPT !.networks.ipv4_address = DeleteIfSet(@),
                     !.networks.ipv6_address = DeleteIfSet(@)]
    ELSE svc

stripHealthcheck(svc) ==
    [svc EXCEPT !.healthcheck = DeleteIfSet(@),
                !.depends_on = IF @ = "service_healthy" THEN "service_started" ELSE @]

stripDns(svc) == [svc EXCEPT !.dns = DeleteIfSet(@), !.dns_search = DeleteIfSet(@)]

\* The edit that the stripper named `stripper` makes to one service.
EditService(svc, stripper) ==
    CASE stripper = "resolveContainerNameConflicts" -> stripContainerName(svc)
      [] stripper = "resolveNetworkConflicts" -> stripStaticIps(svc)
      [] stripper = "resolveHealthcheckConflicts" -> stripHealthcheck(svc)
      [] OTHER -> stripDns(svc)

\* The shape the four strippers share: load, edit every service, dump; a text
\* that does not parse, has no services or has a null service is returned as
\* it was given.
EditServices(text, stripper) ==
    IF text.kind # "doc" THEN text
    ELSE LET services == yamlLoad(text).services
         IN  IF \E i \in 1..Len(services) : services[i][2].null THEN text
             ELSE yamlDump([kind |-> "doc",
                            services |-> [i \in 1..Len(services) |->
                                             <<services[i][1],
                                               EditService(services[i][2], stripper)>>]])

resolveContainerNameConflicts(text) == EditServices(text, "resolveContainerNameConflicts")

resolveNetworkConflicts(text) == EditServices(text, "resolveNetworkConflicts")

resolveHealthcheckConflicts(text) == EditServices(text, "resolveHealthcheckConflicts")

stripDnsSettings(text) == EditServices(text, "stripDnsSettings")

\* The conflict resolution of restoreUnifiedStackBackup: the port rewriter,
\* then the four strippers, each on the text the one before returned.
ConflictRewriter(text, e) ==
    LET ports == resolvePortConflicts(text, e)
    IN  [yaml |-> stripDnsSettings(
                      resolveHealthcheckConflicts(
                          resolveNetworkConflicts(
                              resolveContainerNameConflicts(ports.yaml)))),
         remappings |-> ports.remappings]

\* The services the manifests are built from.
NoNetworks == [form |-> "absent", ipv4_address |-> "absent", ipv6_address |-> "absent"]

PlainService ==
    [null |-> FALSE, ports |-> <<>>, container_name |-> "absent", healthcheck |-> "absent",
     dns |-> "absent", dns_search |-> "absent", depends_on |-> "absent", networks |-> NoNetworks]

ServiceChoices ==
    { [PlainService EXCEPT !.ports = <<Mapping(8080, 80, TRUE)>>,
                           !.container_name = "set", !.healthcheck = "set",
                           !.dns = "set", !.dns_search = "set",
                           !.depends_on = "service_healthy",
                           !.networks = [form |-> "map", ipv4_address |-> "set",
                                         ipv6_address |-> "set"]],
      [PlainService EXCEPT !.ports = <<Mapping(65534, 80, TRUE)>>,
                           !.networks = [NoNetworks EXCEPT !.form = "list"]],
      [PlainService EXCEPT !.ports = <<Mapping(8080, 81, TRUE), Mapping(65535, 80, TRUE)>>,
                           !.depends_on = "list"],
      [PlainService EXCEPT !.ports = <<Mapping(8080, 80, FALSE)>>,
                           !.container_name = "empty", !.dns = "empty",
                           !.networks = [form |-> "map", ipv4_address |-> "empty",
                                         ipv6_address |-> "absent"]],
      [PlainService EXCEPT !.null = TRUE] }

\* The manifests a backup may hold.
Manifests ==
    { [kind |-> "broken", dumped |-> FALSE, services |-> <<>>],
      [kind |-> "noservices", dumped |-> FALSE, services |-> <<>>] }
    \cup { [kind |-> "doc", dumped |-> FALSE, services |-> << <<"web", w>> >>] :
               w \in ServiceChoices }
    \cup { [kind |-> "doc", dumped |-> FALSE, services |-> << <<"web", w>>, <<"db", d>> >>] :
               w \in ServiceChoices, d \in ServiceChoices }

\* The states of the host's ports.
HostStates ==
    { [QuietEngine EXCEPT !.bound = b, !.published = p, !.up = u] :
          b \in SUBSET PortChoices, p \in {{}, {8081}}, u \in BOOLEAN }

\* One application of the conflict rewriter to the latest text.
ApplyRewriter ==
    /\ Len(emitted) < MaxRewrites
    /\ LET r == ConflictRewriter(versions[Len(versions)], engine)
       IN  /\ versions' = Append(versions, r.yaml)
           /\ emitted' = Append(emitted, r.remappings)
    /\ UNCHANGED <<globalState, queue, running, procs, history, stacks, telegram, added,
                   engine, probed, sideState>>

\* One port search.
Probe(start) ==
    /\ LET r == findAvailablePort(start, engine)
       IN  probed' = [start |-> start, threw |-> r.threw, port |-> r.port]
    /\ UNCHANGED <<globalState, queue, running, procs, history, stacks, telegram, added,
                   engine, versions, emitted, sideState>>

\* ------------------------------------------------------- the history store

\* The sizes of the stored history SpecHistory starts from.
InitialSizes == {HistoryLimit - 2, HistoryLimit - 1, HistoryLimit}

\* The n-th entry ever stored.
StoredEntry(n, status) == HistoryEntry(n, "file", status, "local", "")

\* One addHistoryEntry call.
AddHistory(status) ==
    /\ Len(added) < HistoryLimit + MaxAdds
    /\ LET entry == StoredEntry(Len(added) + 1, status)
       IN  /\ history' = addHistoryEntry(history, entry)
           /\ added' = Append(added, entry)
    /\ UNCHANGED <<globalState, queue, running, procs, stacks, telegram, engine, rewriter, sideState>>

\* ------------------------------------------------------------ the scheduler

\* The segments of the token sequence s between the tokens sep
\* (String.split with a string separator).
RECURSIVE splitFrom(_, _, _, _)
splitFrom(s, sep, i, acc) ==
    IF i > Len(s) THEN acc
    ELSE IF s[i] = sep THEN splitFrom(s, sep, i + 1, Append(acc, <<>>))
    ELSE splitFrom(s, sep, i + 1,
                   [acc EXCEPT ![Len(acc)] = Append(acc[Len(acc)], s[i])])

split(s, sep) == splitFrom(s, sep, 1, << <<>> >>)

\* storage.ts ScheduleConfig; time is <<>> and dayOfWeek is "undefined" when
\* the field is missing.
ScheduleConfig(frequency, time, dayOfWeek) ==
    [frequency |-> frequency, time |-> time, dayOfWeek |-> dayOfWeek]

ScheduleConfigs ==
    { ScheduleConfig("manual", <<"03", ":", "30">>, "undefined"),
      ScheduleConfig("daily", <<"03", ":", "30">>, "undefined"),
      ScheduleConfig("daily", <<>>, "undefined"),
      ScheduleConfig("weekly", <<"03", ":", "30">>, "undefined"),
      ScheduleConfig("weekly", <<"03", ":", "30">>, "3") }

\* The settings getSettings may return: a schedule or none for container c1
\* and for stack S.
AppSettings ==
    { [containerSchedules |-> cs, stackSchedules |-> ss] :
          cs \in UNION { [K -> ScheduleConfigs] : K \in SUBSET {"c1"} },
          ss \in UNION { [K -> ScheduleConfigs] : K \in SUBSET {StackName} } }

\* Object.entries visits the keys in this order.
ScheduleOrder == <<"c1", "c2", StackName>>

\* The cron expression of a schedule, <<>> for null.
getCronExpression(config) ==
    IF config.time = <<>> THEN <<>>
    ELSE LET hour == split(config.time, ":")[1]
             minute == split(config.time, ":")[2]
         IN  IF config.frequency = "daily"
             THEN minute \o hour \o <<"*", "*", "*">>
             ELSE IF config.frequency = "weekly"
             THEN minute \o hour \o <<"*", "*",
                      IF config.dayOfWeek # "undefined" THEN config.dayOfWeek ELSE "0">>
             ELSE <<>>

\* The scheduler before initScheduler has run; saved is the settings file,
\* which holds no schedule at first.
NoScheduler ==
    [settings |-> [containerSchedules |-> <<>>, stackSchedules |-> <<>>],
     saved |-> [containerSchedules |-> <<>>, stackSchedules |-> <<>>],
     scheduledTasks |-> <<>>, tasks |-> <<>>, runs |-> 0]

\* The tasks one loop of initScheduler registers for the schedules of one
\* kind, as <<key, cron expression>> in the order of the loop.
RECURSIVE scheduleFrom(_, _, _, _)
scheduleFrom(schedules, kind, i, acc) ==
    IF i > Len(ScheduleOrder) THEN acc
    ELSE LET id == ScheduleOrder[i]
             cronExpression == getCronExpression(schedules[id])
         IN  IF id \notin DOMAIN schedules
                \/ schedules[id].frequency = "manual"
                \/ cronExpression = <<>>
             THEN scheduleFrom(schedules, kind, i + 1, acc)
             ELSE scheduleFrom(schedules, kind, i + 1,
                               Append(acc, [key |-> <<kind, id>>, cron |-> cronExpression,
                                            active |-> TRUE]))

\* initScheduler(): every task of scheduledTasks is stopped, the map is
\* emptied, and a task is scheduled and stored for each container schedule
\* and then each stack schedule that has a cron expression.
initScheduler(settings) ==
    /\ scheduler.runs < MaxInits
    /\ LET stopped == {scheduler.scheduledTasks[k] : k \in DOMAIN scheduler.scheduledTasks}
           old == [i \in 1..Len(scheduler.tasks) |->
                      IF i \in stopped THEN [scheduler.tasks[i] EXCEPT !.active = FALSE]
                      ELSE scheduler.tasks[i]]
           new == scheduleFrom(settings.containerSchedules, "container", 1, <<>>)
                  \o scheduleFrom(settings.stackSchedules, "stack", 1, <<>>)
       IN  scheduler' =
               [settings |-> settings,
                saved |-> scheduler.saved,
                scheduledTasks |-> [k \in {new[i].key : i \in 1..Len(new)} |->
                                       Len(old) + CHOOSE i \in 1..Len(new) : new[i].key = k],
                tasks |-> old \o new,
                runs |-> scheduler.runs + 1]
    /\ UNCHANGED <<globalState, queue, running, procs, history, stacks, telegram, added,
                   engine, rewriter, postgres, applied>>

\* saveSettingsAction(settings): saveSettings writes the settings file and
\* the action returns; the registered tasks are left as they are.
saveSettingsAction(settings) ==
    /\ settings # scheduler.saved
    /\ scheduler' = [scheduler EXCEPT !.saved = settings]
    /\ UNCHANGED <<globalState, queue, running, procs, history, stacks, telegram, added,
                   engine, rewriter, postgres, applied>>

\* ---------------------------------------------------------- the SQL restore

\* The role POSTGRES_USER names.
PgUser == "app"

\* The values of POSTGRES_PASSWORD in the container's environment, as token
\* sequences in which "=" is a token of its own; <<>> is the empty value.
EnvPasswords == { <<"s3cret">>, <<"abc", "=", "def">>, <<"abc", "=">>, <<>> }

\* The password the dump assigns to the role, <<>> when it assigns none.
DumpPasswords == { <<>>, <<"old">> }

\* The entry of info.Config.Env for the password pwd.
envEntry(pwd) == <<"POSTGRES_PASSWORD", "=">> \o pwd

\* env.find(e => e.startsWith('POSTGRES_PASSWORD='))?.split('=')[1] || ''
pgPwdOf(entry) == split(entry, "=")[2]

\* The database server before any restore: no role, any authentication mode.
NoPostgres ==
    [pc |-> "idle", env |-> <<>>, pgPwd |-> <<>>, dump |-> <<>>, roles |-> <<>>,
     hba |-> "trust", synced |-> FALSE, restores |-> 0]

\* psql -U role with PGPASSWORD pwd, run inside the container, is let in.
login(db, role, pwd) ==
    role \in DOMAIN db.roles /\ (db.hba = "trust" \/ db.roles[role] = pwd)

\* restoreSqlInternal(containerId, zip, prefix, envMap) on a Postgres
\* container whose archive holds a dump, up to the start of the replay.
SqlRestoreCall(dump) ==
    /\ postgres.pc \in {"idle", "done"}
    /\ postgres.restores < MaxSqlRestores
    /\ postgres' = [postgres EXCEPT !.pc = "replay", !.dump = dump, !.synced = FALSE,
                                    !.pgPwd = pgPwdOf(envEntry(postgres.env)),
                                    !.restores = @ + 1]
    /\ globalState' = ApplyWrites(globalState,
                          << <<"c2", "processing", "Found SQL Dump. Restoring Database...">> >>)
    /\ UNCHANGED <<queue, running, procs, history, stacks, telegram, added, engine, rewriter,
                   scheduler, applied>>

\* restoreSqlInternal after the replay: psql, logged in as the role with the
\* password read from the environment, has run the dump, or was refused, or
\* the exec threw (ok is false) and the finally block ends the restore.
SqlReplayDone(ok) ==
    /\ postgres.pc = "replay"
    /\ LET in == login(postgres, PgUser, postgres.pgPwd)
           roles == IF ok /\ in /\ postgres.dump # <<>>
                    THEN [postgres.roles EXCEPT ![PgUser] = postgres.dump]
                    ELSE postgres.roles
           sync == ok /\ postgres.pgPwd # <<>>
       IN  /\ postgres' = [postgres EXCEPT !.roles = roles,
                                           !.pc = IF sync THEN "sync" ELSE "done"]
           /\ globalState' = IF sync THEN globalState
                             ELSE ApplyWrites(globalState,
                                      << <<"c2", "processing", "Database Restored.">> >>)
    /\ UNCHANGED <<queue, running, procs, history, stacks, telegram, added, engine, rewriter,
                   scheduler, applied>>

\* restoreSqlInternal after the credential sync: psql, logged in as the role
\* with the password read from the environment, has created the role if it
\* was missing and set its password to that password, or was refused, or the
\* exec did not start; every error is swallowed.
SqlSyncDone(started) ==
    /\ postgres.pc = "sync"
    /\ LET in == started /\ login(postgres, PgUser, postgres.pgPwd)
           roles == IF in
                    THEN [r \in DOMAIN postgres.roles \cup {PgUser} |-> postgres.pgPwd]
                    ELSE postgres.roles
       IN  postgres' = [postgres EXCEPT !.roles = roles, !.synced = started, !.pc = "done"]
    /\ globalState' = ApplyWrites(globalState,
                          << <<"c2", "processing", "Database Restored.">> >>)
    /\ UNCHANGED <<queue, running, procs, history, stacks, telegram, added, engine, rewriter,
                   scheduler, applied>>

\* -------------------------------------------------------------- the helpers

\* No helper has been applied.
NoApplication ==
    [fn |-> "", val |-> <<>>, envMap |-> <<>>, env |-> <<>>, out |-> <<>>, count |-> 0]

\* The tokens a variable name cannot hold: [^}:-]
KeyStops == {"}", ":", "-"}

\* The length of the longest run of tokens of val from position i on that
\* holds no token of stops.
RECURSIVE runLength(_, _, _)
runLength(val, i, stops) ==
    IF i > Len(val) \/ val[i] \in stops THEN 0 ELSE 1 + runLength(val, i + 1, stops)

\* The match of /\${([^}:-]+)(?::-([^}]*))?}/ that starts at position i of val:
\* its length (0 for no match), the key and the default (<<>> when the group
\* did not take part).
placeholderAt(val, i) ==
    LET none == [len |-> 0, key |-> <<>>, defaultValue |-> <<>>]
        k == runLength(val, i + 2, KeyStops)
        after == i + 2 + k
        key == SubSeq(val, i + 2, after - 1)
        d == runLength(val, after + 2, {"}"})
    IN  IF ~(i + 1 <= Len(val) /\ val[i] = "$" /\ val[i + 1] = "{") \/ k = 0 THEN none
        ELSE IF after <= Len(val) /\ val[after] = "}"
        THEN [len |-> k + 3, key |-> key, defaultValue |-> <<>>]
        ELSE IF /\ after + 1 <= Len(val) /\ val[after] = ":" /\ val[after + 1] = "-"
                /\ after + 2 + d <= Len(val)
        THEN [len |-> k + d + 5, key |-> key,
              defaultValue |-> SubSeq(val, after + 2, after + 1 + d)]
        ELSE none

\* map?.[key]: <<>> stands for undefined and for the empty string, both falsy.
valueOf(map, key) == IF Len(key) = 1 /\ key[1] \in DOMAIN map THEN map[key[1]] ELSE <<>>

placeholderValueEnvFirst(key, defaultValue, envMap, env) ==
    IF valueOf(env, key) # <<>> THEN valueOf(env, key)
    ELSE IF valueOf(envMap, key) # <<>> THEN valueOf(envMap, key)
    ELSE defaultValue

\* envMap?.[key] || process.env[key] || defaultValue || ''
placeholderValue(key, defaultValue, envMap, env) ==
    IF valueOf(envMap, key) # <<>> THEN valueOf(envMap, key)
    ELSE IF valueOf(env, key) # <<>> THEN valueOf(env, key)
    ELSE defaultValue

\* val.replace(regex, callback) from position i on, left to right.
RECURSIVE replaceFrom(_, _, _, _)
replaceFrom(val, i, envMap, env) ==
    IF i > Len(val) THEN <<>>
    ELSE LET m == placeholderAt(val, i)
         IN  IF m.len = 0 THEN <<val[i]>> \o replaceFrom(val, i + 1, envMap, env)
             ELSE placeholderValue(m.key, m.defaultValue, envMap, env)
                  \o replaceFrom(val, i + m.len, envMap, env)

\* resolveEnvValue(val, envMap) with process.env = env.
resolveEnvValue(val, envMap, env) ==
    IF val = <<>> THEN val ELSE replaceFrom(val, 1, envMap, env)

\* A template: literal pieces and placeholders ${key} or ${key:-default}.
Literal(tokens) == [kind |-> "literal", tokens |-> tokens, key |-> "", defaultValue |-> <<>>]

Placeholder(key) == [kind |-> "plain", tokens |-> <<>>, key |-> key, defaultValue |-> <<>>]

PlaceholderOr(key, defaultValue) ==
    [kind |-> "default", tokens |-> <<>>, key |-> key, defaultValue |-> defaultValue]

\* The text of a template.
RECURSIVE Render(_)
Render(pieces) ==
    IF pieces = <<>> THEN <<>>
    ELSE (CASE pieces[1].kind = "literal" -> pieces[1].tokens
            [] pieces[1].kind = "plain" -> <<"$", "{", pieces[1].key, "}">>
            [] OTHER -> <<"$", "{", pieces[1].key, ":", "-">> \o pieces[1].defaultValue \o <<"}">>)
         \o Render(Tail(pieces))

\* The values the environment entries of the restored containers hold.
Templates ==
    { <<>>,
      <<Literal(<<"postgres">>)>>,
      <<Placeholder("VAR")>>,
      <<PlaceholderOr("VAR", <<"d">>)>>,
      <<PlaceholderOr("VAR", <<>>)>>,
      <<PlaceholderOr("VAR", <<"d", ":", "-", "e">>)>>,
      <<Literal(<<"x">>), Placeholder("VAR"), Literal(<<"y">>)>>,
      <<Placeholder("VAR"), PlaceholderOr("OTHER", <<"d">>)>>,
      <<Literal(<<"$", "x">>), PlaceholderOr("VAR", <<"d">>)>>,
      <<Literal(<<"$", "{", "}">>), Placeholder("OTHER")>>,
      <<Literal(<<"{", "VAR", "}">>)>> }

\* The envMap of a stack restore and the process environment: VAR undefined,
\* empty or set.
EnvMaps ==
    { <<>>, [VAR |-> <<>>], [VAR |-> <<"m">>] }

ProcessEnvs ==
    { <<>>, [VAR |-> <<>>], [VAR |-> <<"p">>] }

\* One call of resolveEnvValue.
ResolveEnvValue(template, envMap, env) ==
    /\ applied.count < MaxApplications
    /\ applied' = [fn |-> "resolveEnvValue", val |-> template, envMap |-> envMap, env |-> env,
                   out |-> resolveEnvValue(Render(template), envMap, env),
                   count |-> applied.count + 1]
    /\ UNCHANGED <<globalState, queue, running, procs, history, stacks, telegram, added,
                   engine, rewriter, scheduler, postgres>>

\* The paths a backup may capture: mount points and custom paths.
CapturedPaths ==
    { <<"/">>, DataPath, ConfigPath, <<"/", "var", "/", "lib", "/", "pg">>,
      <<"/", "data", "/">>, <<"/", "srv", "/", "site", ".tar", ".gz">>,
      <<"/", "backup", ".tar">>, <<"/", "a", "\\", "b">> }

\* s without its leading tokens prefix, when it has them
\* (String.replace(prefix, '') on a name that starts with prefix).
RemovePrefix(s, prefix) ==
    IF Len(s) >= Len(prefix) /\ SubSeq(s, 1, Len(prefix)) = prefix
    THEN SubSeq(s, Len(prefix) + 1, Len(s))
    ELSE s

\* The path restoreVolumesInternal decodes from a tar entry name (prefix '').
volumeOriginalPath(entryName) ==
    LET rawName == RemoveFirst(RemovePrefix(entryName, <<"volumes", "/">>), ".tar")
        originalPath == ReplaceAll(rawName, "_", "/")
    IN  IF originalPath # <<>> /\ originalPath[1] = "/" THEN originalPath
        ELSE <<"/">> \o originalPath

\* The entry name the backup gives to volPath, decoded by the restore.
EncodeDecode(volPath) ==
    /\ applied.count < MaxApplications
    /\ applied' = [fn |-> "volumePath", val |-> volPath, envMap |-> <<>>, env |-> <<>>,
                   out |-> volumeOriginalPath(volumeEntry(volPath)),
                   count |-> applied.count + 1]
    /\ UNCHANGED <<globalState, queue, running, procs, history, stacks, telegram, added,
                   engine, rewriter, scheduler, postgres>>

\* ------------------------------------------------------- the specification

InitCommon ==
    /\ globalState = [id \in JobIds |-> NoJob]
    /\ queue = <<>>
    /\ running = 0
    /\ procs = <<>>
    /\ history = <<>>
    /\ added = <<>>
    /\ engine = QuietEngine
    /\ versions = <<>>
    /\ emitted = <<>>
    /\ probed = NoProbe
    /\ scheduler = NoScheduler
    /\ applied = NoApplication
    /\ postgres = NoPostgres

\* The continuations both backup specifications share.
BackupSteps ==
    \/ QueueNext
    \/ \E t \in Tickets, ok \in BOOLEAN : GenInspectDone(t, ok)
    \/ \E t \in Tickets, ok \in BOOLEAN : ExInspectDone(t, ok)
    \/ \E t \in Tickets, outcome \in DumpOutcomes : ExDumpDone(t, outcome)
    \/ \E t \in Tickets : OutputClose(t)
    \/ \E t \in Tickets : Timeout(t)
    \/ \E t \in Tickets, ok \in BOOLEAN : UploadDone(t, ok)

\* Spec: the queue, the job-status table and the history under concurrent
\* triggers.  Telegram is configured, no stack definition is stored and no
\* custom path is given, so every path set is empty.
Init == InitCommon /\ stacks = NoStack /\ telegram = TRUE

Next ==
    \/ \E c \in Containers : TriggerBackup(c, <<>>)
    \/ SchedulerStackFire
    \/ ApiStackBackup
    \/ \E t \in Tickets, ok \in BOOLEAN, listed \in {ProjectContainers, <<>>} :
           StackListDone(t, ok, listed)
    \/ BackupSteps

Spec == Init /\ [][Next]_vars

\* SpecLive: the queue under triggers, with every continuation that is
\* enabled eventually taken: the engine and the upload answer, a timer that
\* is armed fires, and the queue starts a waiting task when the worker is free.
LiveSteps ==
    \/ \E t \in Tickets, ok \in BOOLEAN, listed \in {ProjectContainers, <<>>} :
           StackListDone(t, ok, listed)
    \/ BackupSteps

\* The containers whose backup is triggered in SpecLive.
LiveContainers == {"c1"}

NextLive ==
    \/ /\ Len(procs) < MaxLiveJobs
       /\ \/ \E c \in LiveContainers : TriggerBackup(c, <<>>)
          \/ SchedulerStackFire
    \/ LiveSteps

SpecLive == Init /\ [][NextLive]_vars /\ WF_vars(LiveSteps)

\* SpecArchive: the contents of the archive a backup builds, for every stored
\* stack definition, custom path list, listing and capture outcome.
InitArchive == InitCommon /\ stacks \in StackConfigs /\ telegram \in BOOLEAN

NextArchive ==
    \/ /\ Len(procs) < MaxArchiveJobs
       /\ \E c \in Containers, custom \in CustomPathChoices : TriggerBackup(c, custom)
    \/ /\ Len(procs) < MaxArchiveJobs
       /\ SchedulerStackFire
    \/ /\ Len(procs) < MaxArchiveJobs
       /\ ApiStackBackup
    \/ \E t \in Tickets, ok \in BOOLEAN, listed \in ListChoices : StackListDone(t, ok, listed)
    \/ \E t \in Tickets, ok \in BOOLEAN : ExPathDone(t, ok)
    \/ BackupSteps

SpecArchive == InitArchive /\ [][NextArchive]_vars

\* SpecRestore: the three restore entry points, called concurrently.
InitRestore == InitCommon /\ stacks = NoStack /\ telegram = TRUE

NextRestore ==
    \/ \E c \in Containers, fileExists \in BOOLEAN : RestoreBackupCall(c, fileExists)
    \/ \E t \in Tickets, hasDump \in BOOLEAN, ok \in BOOLEAN : RestoreInternalDone(t, hasDump, ok)
    \/ \E t \in Tickets, ok \in BOOLEAN : RestoreInspectDone(t, ok)
    \/ \E artifact \in CloneArtifacts : CloneCall(artifact, NoClone.config)
    \/ \E t \in Tickets, ok \in BOOLEAN : CloneImageDone(t, ok)
    \/ \E t \in Tickets : CloneNetworkDone(t, TRUE)
    \/ \E t \in Tickets : CloneCreateDone(t, TRUE)
    \/ \E t \in Tickets : CloneStartDone(t, TRUE)
    \/ \E t \in Tickets, ok \in BOOLEAN : CloneDone(t, ok)
    \/ \E artifact \in StackArtifacts : StackRestoreCall(artifact, <<>>, TRUE)
    \/ \E t \in Tickets, ok \in BOOLEAN : StackRestoreImportDone(t, ok, "done")
    \/ \E t \in Tickets : StackRestoreEnsureDone(t, TRUE, 0)
    \/ \E t \in Tickets, outcome \in DeployOutcomes : StackRestoreDeployDone(t, outcome, TRUE)
    \/ \E t \in Tickets : StackRestoreVolumesDone(t, TRUE)
    \/ \E t \in Tickets, ok \in BOOLEAN : StackRestoreBootDone(t, ok)
    \/ \E t \in Tickets : StackRestoreReadyDone(t, TRUE)
    \/ \E t \in Tickets, ok \in BOOLEAN : StackRestoreDataDone(t, ok, TRUE)

SpecRestore == InitRestore /\ [][NextRestore]_vars

\* SpecStackRestore: restoreUnifiedStackBackup alone, over every manifest
\* networks section, initial set of engine networks and engine answer.
InitStackRestore ==
    /\ globalState = [id \in JobIds |-> NoJob]
    /\ queue = <<>>
    /\ running = 0
    /\ procs = <<>>
    /\ history = <<>>
    /\ added = <<>>
    /\ engine \in {[QuietEngine EXCEPT !.networks = n] : n \in InitialNetworks}
    /\ versions = <<>>
    /\ emitted = <<>>
    /\ probed = NoProbe
    /\ scheduler = NoScheduler
    /\ applied = NoApplication
    /\ postgres = NoPostgres
    /\ stacks \in StackConfigs
    /\ telegram = TRUE

NextStackRestore ==
    \/ /\ Len(procs) < MaxStackRestores
       /\ \E artifact \in StackArtifacts, nets \in NetworkChoices :
              StackRestoreCall(artifact, nets, TRUE)
    \/ \E t \in Tickets, ok \in BOOLEAN, outcome \in {"done", "list_failed"} :
           StackRestoreImportDone(t, ok, outcome)
    \/ \E t \in Tickets, listOk \in BOOLEAN, quota \in NetworkQuotas :
           StackRestoreEnsureDone(t, listOk, quota)
    \/ \E t \in Tickets, outcome \in DeployOutcomes : StackRestoreDeployDone(t, outcome, TRUE)
    \/ \E t \in Tickets : StackRestoreVolumesDone(t, TRUE)
    \/ \E t \in Tickets : StackRestoreBootDone(t, TRUE)
    \/ \E t \in Tickets : StackRestoreReadyDone(t, TRUE)
    \/ \E t \in Tickets, ok \in BOOLEAN : StackRestoreDataDone(t, ok, TRUE)

SpecStackRestore == InitStackRestore /\ [][NextStackRestore]_vars

\* SpecClone: restoreToNewContainer alone, for every archive, engine answer
\* and set of engine networks.
InitClone ==
    /\ globalState = [id \in JobIds |-> NoJob]
    /\ queue = <<>>
    /\ running = 0
    /\ procs = <<>>
    /\ history = <<>>
    /\ added = <<>>
    /\ engine \in {[QuietEngine EXCEPT !.networks = n] : n \in {{}, {"appnet"}}}
    /\ versions = <<>>
    /\ emitted = <<>>
    /\ probed = NoProbe
    /\ scheduler = NoScheduler
    /\ applied = NoApplication
    /\ postgres = NoPostgres
    /\ stacks = NoStack
    /\ telegram = TRUE

NextClone ==
    \/ /\ Len(procs) < MaxClones
       /\ \E artifact \in CloneArtifacts, config \in CloneConfigs \cup {NoClone.config} :
              CloneCall(artifact, config)
    \/ \E t \in Tickets, ok \in BOOLEAN : CloneImageDone(t, ok)
    \/ \E t \in Tickets, inspectOk \in BOOLEAN : CloneNetworkDone(t, inspectOk)
    \/ \E t \in Tickets, ok \in BOOLEAN : CloneCreateDone(t, ok)
    \/ \E t \in Tickets, ok \in BOOLEAN : CloneStartDone(t, ok)
    \/ \E t \in Tickets, ok \in BOOLEAN : CloneDone(t, ok)

SpecClone == InitClone /\ [][NextClone]_vars

\* SpecScheduler: initScheduler run again and again on whatever settings the
\* settings file holds at the time.
InitScheduler == InitCommon /\ stacks = NoStack /\ telegram = TRUE

\* register() runs initScheduler when the server starts, which reads the
\* settings file with getSettings; the dashboard saves settings at any time.
NextScheduler ==
    \/ initScheduler(scheduler.saved)
    \/ \E settings \in AppSettings : saveSettingsAction(settings)

SpecScheduler == InitScheduler /\ [][NextScheduler]_vars

\* SpecSql: restoreSqlInternal on a Postgres container, for every password in
\* the environment, every data directory the volume restore may have left
\* (role missing, role with the environment's or with an older password) and
\* both authentication modes of local connections.
InitSql ==
    /\ globalState = [id \in JobIds |-> NoJob]
    /\ queue = <<>>
    /\ running = 0
    /\ procs = <<>>
    /\ history = <<>>
    /\ added = <<>>
    /\ engine = QuietEngine
    /\ versions = <<>>
    /\ emitted = <<>>
    /\ probed = NoProbe
    /\ scheduler = NoScheduler
    /\ applied = NoApplication
    /\ stacks = NoStack
    /\ telegram = TRUE
    /\ \E env \in EnvPasswords, hba \in {"trust", "md5"} :
         \E roles \in UNION { [K -> {env, <<"old">>}] : K \in SUBSET {PgUser} } :
           postgres = [NoPostgres EXCEPT !.env = env, !.hba = hba, !.roles = roles]

NextSql ==
    \/ \E dump \in DumpPasswords : SqlRestoreCall(dump)
    \/ \E ok \in BOOLEAN : SqlReplayDone(ok)
    \/ \E started \in BOOLEAN : SqlSyncDone(started)

SpecSql == InitSql /\ [][NextSql]_vars

\* SpecDatabases: the database phases of a stack restore, database by
\* database and probe by probe, for stacks with one or two databases.
InitDatabases == InitCommon /\ stacks = NoStack /\ telegram = TRUE

NextDatabases ==
    \/ \E dbServices \in DbServiceChoices : StackRestoreBooted(dbServices)
    \/ \E t \in Tickets, isReady \in BOOLEAN : ProbeDone(t, isReady)
    \/ \E t \in Tickets, outcome \in ReplayOutcomes : DbReplayDone(t, outcome)
    \/ \E t \in Tickets : DbSyncDone(t)
    \/ \E t \in Tickets, ok \in BOOLEAN : AppsUpDone(t, ok)

SpecDatabases == InitDatabases /\ [][NextDatabases]_vars

\* SpecHelpers: placeholder resolution and the coding of volume paths as tar
\* entry names, applied to every template, environment and path.
InitHelpers == InitCommon /\ stacks = NoStack /\ telegram = TRUE

NextHelpers ==
    \/ \E template \in Templates, envMap \in EnvMaps, env \in ProcessEnvs :
           ResolveEnvValue(template, envMap, env)
    \/ \E volPath \in CapturedPaths : EncodeDecode(volPath)

SpecHelpers == InitHelpers /\ [][NextHelpers]_vars

\* SpecStackPhases: the phases of restoreUnifiedStackBackup for a manifest
\* without networks, over every engine answer, on an engine that runs the
\* stack already or has none of its containers.
InitStackPhases ==
    /\ globalState = [id \in JobIds |-> NoJob]
    /\ queue = <<>>
    /\ running = 0
    /\ procs = <<>>
    /\ history = <<>>
    /\ added = <<>>
    /\ engine \in ExistingStacks
    /\ versions = <<>>
    /\ emitted = <<>>
    /\ probed = NoProbe
    /\ scheduler = NoScheduler
    /\ applied = NoApplication
    /\ postgres = NoPostgres
    /\ stacks = NoStack
    /\ telegram = TRUE

NextStackPhases ==
    \/ /\ Len(procs) < MaxPhaseRestores
       /\ \E artifact \in StackArtifacts, rewriteOk \in BOOLEAN :
              StackRestoreCall(artifact, <<>>, rewriteOk)
    \/ \E t \in Tickets, ok \in BOOLEAN, outcome \in CleanupOutcomes :
           StackRestoreImportDone(t, ok, outcome)
    \/ \E t \in Tickets : StackRestoreEnsureDone(t, TRUE, 0)
    \/ \E t \in Tickets, outcome \in DeployOutcomes, recreate \in BOOLEAN :
           StackRestoreDeployDone(t, outcome, recreate)
    \/ \E t \in Tickets, pathOk \in BOOLEAN : StackRestoreVolumesDone(t, pathOk)
    \/ \E t \in Tickets, ok \in BOOLEAN : StackRestoreBootDone(t, ok)
    \/ \E t \in Tickets, isReady \in BOOLEAN : StackRestoreReadyDone(t, isReady)
    \/ \E t \in Tickets, ok \in BOOLEAN, sqlOk \in BOOLEAN : StackRestoreDataDone(t, ok, sqlOk)

SpecStackPhases == InitStackPhases /\ [][NextStackPhases]_vars

\* SpecHistory: addHistoryEntry calls on a stored history, newest first, of
\* at most HistoryLimit entries.
InitHistory ==
    /\ globalState = [id \in JobIds |-> NoJob]
    /\ queue = <<>>
    /\ running = 0
    /\ procs = <<>>
    /\ stacks = NoStack
    /\ telegram = TRUE
    /\ engine = QuietEngine
    /\ versions = <<>>
    /\ emitted = <<>>
    /\ probed = NoProbe
    /\ scheduler = NoScheduler
    /\ applied = NoApplication
    /\ postgres = NoPostgres
    /\ \E n \in InitialSizes :
           /\ added = [i \in 1..n |-> StoredEntry(i, "success")]
           /\ history = [i \in 1..n |-> StoredEntry(n - i + 1, "success")]

NextHistory == \E status \in {"success", "failed"} : AddHistory(status)

SpecHistory == InitHistory /\ [][NextHistory]_vars

\* SpecRewrite: the port search and the conflict rewriter, applied to every
\* manifest on every host state; the host state does not change.
InitRewrite ==
    /\ globalState = [id \in JobIds |-> NoJob]
    /\ queue = <<>>
    /\ running = 0
    /\ procs = <<>>
    /\ history = <<>>
    /\ added = <<>>
    /\ stacks = NoStack
    /\ telegram = TRUE
    /\ engine \in HostStates
    /\ \E m \in Manifests : versions = <<m>>
    /\ emitted = <<>>
    /\ probed = NoProbe
    /\ scheduler = NoScheduler
    /\ applied = NoApplication
    /\ postgres = NoPostgres

NextRewrite ==
    \/ ApplyRewriter
    \/ \E start \in PortChoices : Probe(start)

SpecRewrite == InitRewrite /\ [][NextRewrite]_vars

\* ------------------------------------------------------------------ claims

ProcIds == 1..Len(procs)

Range(s) == {s[i] : i \in 1..Len(s)}

Terminal == {"completed", "failed"}

\* C1: at every moment at most one record of the job-status table has status
\* processing.
C1_AtMostOneProcessing ==
    Cardinality({id \in JobIds : globalState[id].status = "processing"}) <= 1

StatusRank(s) ==
    CASE s = "none" -> 0
      [] s = "pending" -> 1
      [] s = "processing" -> 2
      [] s = "uploading" -> 3
      [] OTHER -> 4

\* A job on this id is enqueued, called or started by the queue in the step.
JobBegins(id) ==
    \E t \in 1..Len(procs') :
        /\ procs'[t].id = id
        /\ \/ t > Len(procs)
           \/ procs[t].pc = "queued" /\ procs'[t].pc # "queued"

\* The jobs that write to the record of id: the jobs on id and the stack
\* backups that archive the container id.
WritersOf(id) ==
    {t \in 1..Len(procs') : procs'[t].id = id \/ id \in Range(procs'[t].members)}

\* C2: the statuses written to the record of a job that is the only one to
\* write to it only move forward along pending -> processing -> uploading ->
\* completed | failed, and nothing is written over completed or failed.
C2_StatusesMoveForward ==
    [][\A id \in JobIds :
          \/ JobBegins(id)
          \/ Cardinality(WritersOf(id)) > 1
          \/ globalState'[id].status = globalState[id].status
          \/ /\ globalState[id].status \notin Terminal
             /\ StatusRank(globalState'[id].status) > StatusRank(globalState[id].status)]_vars

\* C4: of two jobs put on the queue, the later one has started only if the
\* earlier one has made its terminal write (tickets are in enqueue order).
C4_QueueFifo ==
    \A u \in ProcIds, t \in ProcIds :
        (u < t /\ procs[u].via = "queue" /\ procs[t].via = "queue"
            /\ procs[t].pc # "queued")
        => procs[u].term \in Terminal

C4_Witness ==
    \E u \in ProcIds, t \in ProcIds :
        /\ u < t
        /\ procs[u].via = "queue" /\ procs[t].via = "queue"
        /\ procs[t].pc # "queued"

HistoryOf(t) == {i \in 1..Len(history) : history[i].job = t}

\* C5: a job has no history entry before its terminal write and exactly one
\* from then on.
C5_OneHistoryEntry ==
    \A t \in ProcIds :
        Cardinality(HistoryOf(t)) = IF procs[t].term \in Terminal THEN 1 ELSE 0

\* The message the job is to end with when the dump is empty.
ReportsEmptyDumpWithStderr(m) == m = "Empty SQL Dump: stderr"

\* C10: a backup whose dump produced zero bytes while the handler was waiting
\* for the archive ends failed with a message reporting the empty dump and
\* the captured stderr.
C10_EmptyDumpReported ==
    \A t \in ProcIds :
        (procs[t].lost /\ procs[t].exErr = "Empty SQL Dump" /\ procs[t].pc = "done")
        => /\ procs[t].term = "failed"
           /\ ReportsEmptyDumpWithStderr(procs[t].termMsg)

ContainerJobsDone == {t \in ProcIds : procs[t].kind = "container" /\ procs[t].pc = "done"}

\* C7 as claimed: a finished single-container job is failed exactly if an
\* error other than a per-path capture warning occurred, a failed upload
\* included.
C7_FailedIffAnyError ==
    \A t \in ContainerJobsDone :
        procs[t].term = "failed" <=> (procs[t].errs \ {"CaptureWarning"}) # {}

\* C7: a finished single-container job is failed exactly if an error other
\* than a per-path capture warning or a failed upload occurred; after a failed
\* upload it is completed and its history entry is a failed one.
C7_FailedIffFatalBeforeUpload ==
    \A t \in ContainerJobsDone :
        /\ procs[t].term = "failed"
               <=> (procs[t].errs \ {"CaptureWarning", "UploadFailed"}) # {}
        /\ "UploadFailed" \in procs[t].errs
               => /\ procs[t].term = "completed"
                  /\ \E i \in HistoryOf(t) : history[i].status = "failed"

C7_Witness ==
    \E t \in ContainerJobsDone :
        /\ "UploadFailed" \in procs[t].errs
        /\ procs[t].term = "completed"

\* The positions of the entries called name under prefix.
At(a, prefix, names) == {i \in 1..Len(a) : a[i][1] = prefix /\ a[i][2] \in names}

Prefixes(a) == {a[i][1] : i \in 1..Len(a)}

PathEntries == {"tar", "ERROR", "volumes_none.txt"}

Returned(p, k) == p.idx > k \/ (p.idx = k /\ p.ex \in {"closing", "finished"})

C3_ReturnedJobsAreTerminal ==
    \A t \in ProcIds : procs[t].pc = "done" => procs[t].term \in Terminal

Min(a, b) == IF a < b THEN a ELSE b

\* C6: the stored history has at most HistoryLimit entries and is, newest
\* first, exactly the most recently added entries.
C6_NewestKept ==
    /\ Len(history) = Min(Len(added), HistoryLimit)
    /\ \A i \in 1..Len(history) : history[i] = added[Len(added) - i + 1]

C6_Witness ==
    /\ Len(added) > HistoryLimit + 1
    /\ Len(history) = HistoryLimit
    /\ history[1] = added[Len(added)]

\* C11: no archive file of a failed backup remains: once the job has made its
\* failed write, the output file has not been created or has been deleted.
C11_NoArchiveOfFailedBackup ==
    \A t \in ProcIds :
        (procs[t].kind \in {"container", "stack"} /\ procs[t].term = "failed")
        => procs[t].file \in {"none", "deleted"}

Warnings == {"CaptureWarning", "UploadFailed"}

MembersIn(listed) ==
    LET byProject == {c \in Range(listed) : Project(c) = StackName}
    IN  IF byProject # {} THEN byProject
        ELSE {c \in Range(listed) : ServiceOf(c) \in StoredServices}

\* C13: the archive of a stack backup that ended completed has a subtree, with
\* its config.json, for every container that was a member of the stack in
\* the listing the backup took.
C13_SubtreePerMember ==
    \A t \in ProcIds :
        (procs[t].kind = "stack" /\ procs[t].term = "completed")
        => \A c \in MembersIn(procs[t].listed) :
               At(procs[t].archive, PrefixOf("stack", c), {"config.json"}) # {}

C13_Witness ==
    \E t \in ProcIds :
        /\ procs[t].kind = "stack"
        /\ procs[t].term = "completed"
        /\ Cardinality(MembersIn(procs[t].listed)) = 2
        /\ \A c \in MembersIn(procs[t].listed) :
               At(procs[t].archive, PrefixOf("stack", c), {"config.json"}) # {}

\* The jobs whose upload step has ended.
Uploaded == {t \in ProcIds : procs[t].kind \in {"container", "stack"} /\ procs[t].term = "completed"}

\* C14: after the upload step the artifact file exists exactly if the job's
\* history entry has destination local: deleted and telegram after a
\* successful upload, kept and local after a failed one or without Telegram.
C14_FileIffLocal ==
    \A t \in Uploaded :
        /\ HistoryOf(t) # {}
        /\ \A i \in HistoryOf(t) :
               /\ procs[t].file = "complete" <=> history[i].destination = "local"
               /\ procs[t].file = "deleted" <=> history[i].destination = "telegram"
               /\ history[i].destination = "telegram"
                      <=> (telegram /\ "UploadFailed" \notin procs[t].errs)

C14_Witness ==
    \E t \in Uploaded :
        /\ procs[t].file = "deleted"
        /\ \E i \in HistoryOf(t) : history[i].destination = "telegram"

\* C15: a port search that returns has selected a port below 65535 that
\* passes the availability check.
C15_ProbeBelowLimit ==
    (probed # NoProbe /\ ~probed.threw)
    => /\ probed.port < PortLimit
       /\ isPortAvailable(probed.port, engine) = "free"

\* Every service of the manifest is a mapping (none is null).
WellFormed(text) ==
    /\ text.kind = "doc"
    /\ \A i \in 1..Len(text.services) : ~text.services[i][2].null

\* The positions of the records the first application emitted for host port h
\* of service name.
RecordsFor(name, h) ==
    {k \in 1..Len(emitted[1]) : emitted[1][k][1] = name /\ emitted[1][k][2] = h}

\* C16: one application to a well-formed manifest leaves a mapping H:C whose
\* host port is available as it is, with no record, and turns any other into
\* H':C with H' the smallest available port above H, with one record naming
\* the service, H and H'.
C16_SmallestFreePortSubstituted ==
    (Len(versions) >= 2 /\ WellFormed(versions[1]))
    => LET in == versions[1].services
           out == versions[2].services
       IN  /\ versions[2].kind = "doc"
           /\ Len(out) = Len(in)
           /\ \A i \in 1..Len(in) :
                  /\ Len(out[i][2].ports) = Len(in[i][2].ports)
                  /\ \A j \in 1..Len(in[i][2].ports) :
                         LET m == in[i][2].ports[j]
                             n == out[i][2].ports[j]
                             recs == RecordsFor(in[i][1], m.host)
                         IN  m.plain =>
                               IF isPortAvailable(m.host, engine) = "free"
                               THEN n = m /\ recs = {}
                               ELSE /\ n.container = m.container
                                    /\ n.host > m.host
                                    /\ isPortAvailable(n.host, engine) = "free"
                                    /\ \A q \in (m.host + 1)..(n.host - 1) :
                                           isPortAvailable(q, engine) # "free"
                                    /\ Cardinality(recs) = 1
                                    /\ \A k \in recs : emitted[1][k][3] = n.host

\* C17: a second application, on the same host state, returns the text the
\* first one returned and emits no remapping.
C17_RewriterIdempotent ==
    Len(versions) >= 3 => (versions[3] = versions[2] /\ emitted[2] = <<>>)

C17_Witness ==
    /\ Len(versions) >= 3
    /\ emitted[1] # <<>>
    /\ versions[3] = versions[2]
    /\ versions[2].services # versions[1].services

ConflictKeysAbsent(svc) ==
    /\ svc.container_name = "absent"
    /\ svc.healthcheck = "absent"
    /\ svc.dns = "absent"
    /\ svc.dns_search = "absent"
    /\ svc.networks.ipv4_address = "absent"
    /\ svc.networks.ipv6_address = "absent"

\* C18: the text the rewriter returns for a well-formed manifest has no
\* container_name, healthcheck, dns, dns_search, ipv4_address or ipv6_address
\* key in any service.
C18_ConflictKeysErased ==
    (Len(versions) >= 2 /\ WellFormed(versions[1]))
    => \A i \in 1..Len(versions[2].services) :
           ConflictKeysAbsent(versions[2].services[i][2])

\* The stack restore of ticket t has invoked the compose deployer.
DeployInvoked(t) ==
    /\ procs[t].kind = "stackrestore"
    /\ \E k \in 1..Len(procs[t].ops) : procs[t].ops[k] = <<"compose", "up", "">>

\* The names under which the manifest of ticket t expects its external
\* networks: the external property when it is a string, else its name, else
\* the network's own name property, else the key.
ExternalNames(t) ==
    { (CASE n.external = "string" -> n.externalName
         [] n.external = "map" /\ n.externalName # "" -> n.externalName
         [] n.name # "" -> n.name
         [] OTHER -> n.key) :
      n \in {m \in Range(procs[t].networks) : m.external # "none"} }

C20_NoComposeNoMutation ==
    \A t \in ProcIds :
        (procs[t].kind = "stackrestore" /\ procs[t].artifact = "nocompose")
        => /\ procs[t].pc = "done"
           /\ procs[t].term = "failed"
           /\ "ParseError" \in procs[t].errs
           /\ procs[t].ops = <<>>

C20_Witness ==
    \E t \in ProcIds :
        /\ procs[t].kind = "stackrestore"
        /\ procs[t].artifact = "nocompose"
        /\ procs[t].term = "failed"
        /\ globalState[procs[t].id].status = "failed"

\* The positions in the engine calls of stack restore t whose kind is in kinds.
OpsOf(t, kinds) == {k \in 1..Len(procs[t].ops) : procs[t].ops[k][1] \in kinds}

\* C21: in a stack restore every stop and remove of a container of the
\* existing stack comes before the manifest rewrite and its port probing.
C21_CleanupBeforeRewrite ==
    \A t \in ProcIds :
        \A i \in OpsOf(t, {"stop", "remove"}), j \in OpsOf(t, {"rewrite"}) : i < j

\* C22: in a stack restore every put of a volume tar finds its container
\* stopped, and no container is started before the last put.
C22_VolumesWhileStopped ==
    \A t \in ProcIds :
        \A k \in OpsOf(t, {"putArchive"}) :
            /\ procs[t].ops[k][3] = "stopped"
            /\ \A j \in OpsOf(t, {"start"}) : k < j
            /\ \A j \in 1..Len(procs[t].ops) : procs[t].ops[j] = <<"compose", "up -d", "">> => k < j

\* Stack restore t has started, or asked compose to start, the application
\* container.
AppStarted(t) ==
    \E k \in 1..Len(procs[t].ops) :
        procs[t].ops[k] \in {<<"start", "c1", "">>, <<"compose", "up -d", "">>}

\* C23 as stated: the application container is started only after the
\* database container has passed its readiness probe.
C23_AppAfterReadiness ==
    \A t \in ProcIds : AppStarted(t) => procs[t].ready

\* C23, amended: the application container is started only after the
\* database container has been started and its readiness loop has ended,
\* with a passed probe or with its attempts used up.
C23_AppAfterReadinessLoop ==
    \A t \in ProcIds :
        AppStarted(t)
        => /\ procs[t].ready \/ "ReadinessTimeout" \in procs[t].errs
           /\ \E i \in 1..Len(procs[t].ops) :
                  /\ procs[t].ops[i] = <<"start", "c2", "">>
                  /\ \A k \in 1..Len(procs[t].ops) :
                         procs[t].ops[k] \in {<<"start", "c1", "">>, <<"compose", "up -d", "">>}
                         => i < k

C23_Witness ==
    \E t \in ProcIds :
        /\ AppStarted(t)
        /\ "ReadinessTimeout" \in procs[t].errs
        /\ procs[t].term = "completed"
        /\ engine.containers["c1"] = "running"

\* C24: once a stack restore has removed the containers of the existing
\* stack, every volume the engine had when the restore began is still there.
C24_VolumesSurviveCleanup ==
    \A t \in ProcIds :
        OpsOf(t, {"remove"}) # {} => procs[t].volumesBefore \subseteq engine.volumes

\* The stack restores that have returned.
StackRestoresDone == {t \in ProcIds : procs[t].kind = "stackrestore" /\ procs[t].pc = "done"}

ClonesInjected == {t \in 1..Len(procs) : procs[t].kind = "clone" /\ procs[t].clone.puts # <<>>}

\* C26: a backup followed by a clone restore puts the tar of every captured
\* path p into the parent directory of p, so that the data is back at p.
C26_ClonePathRoundTrip ==
    \A t \in ClonesInjected :
        \A i \in 1..Len(procs[t].clone.puts) :
            procs[t].clone.puts[i][2] = dirname(procs[t].clone.puts[i][1])

C28_FirstNetworkOrBridge ==
    \A t \in 1..Len(procs) :
        (procs[t].kind = "clone" /\ procs[t].clone.endpoints # {}) =>
            LET networks == procs[t].clone.config.networks
            IN  procs[t].clone.endpoints =
                    IF networks # <<>> /\ networkExists(engine, networks[1])
                    THEN {networks[1]} ELSE {"bridge"}

\* The tasks of the key that are still active.
ActiveTasks(key) ==
    {i \in 1..Len(scheduler.tasks) : scheduler.tasks[i].active /\ scheduler.tasks[i].key = key}

\* The schedules the last initScheduler run read, by key.
SchedulesRead ==
    { <<"container", id, scheduler.settings.containerSchedules[id]>> :
          id \in DOMAIN scheduler.settings.containerSchedules }
    \cup { <<"stack", id, scheduler.settings.stackSchedules[id]>> :
               id \in DOMAIN scheduler.settings.stackSchedules }

\* C29: after initScheduler has run, exactly one trigger is active for each
\* container schedule and each stack schedule whose frequency is daily or
\* weekly, none for a manual one, and no trigger of an earlier run is active.
C29_OneTriggerPerSchedule ==
    scheduler.runs > 0 =>
        /\ \A e \in SchedulesRead :
               Cardinality(ActiveTasks(<<e[1], e[2]>>)) =
                   IF e[3].frequency \in {"daily", "weekly"} THEN 1 ELSE 0
        /\ \A i \in 1..Len(scheduler.tasks) :
               scheduler.tasks[i].active =>
                   \E k \in DOMAIN scheduler.scheduledTasks : scheduler.scheduledTasks[k] = i

\* C30: after the dump replay and the credential sync of a Postgres restore,
\* the role POSTGRES_USER exists and its password is the POSTGRES_PASSWORD of
\* the container's environment, whatever the dump assigned.
C30_RoleHasEnvPassword ==
    (postgres.pc = "done" /\ postgres.synced) =>
        /\ PgUser \in DOMAIN postgres.roles
        /\ postgres.roles[PgUser] = postgres.env

\* C31: a job that has been put on the queue and waits behind the job the
\* worker runs is observable through the job-status table: the record of its
\* id has been written, whichever path enqueued it.
C31_EnqueuedJobObservable ==
    \A t \in ProcIds :
        (procs[t].pc = "queued" /\ running # 0) => globalState[procs[t].id].status # "none"

\* The positions in the log of proc t of the calls of a kind on database db.
DbOps(t, kind, db) ==
    {k \in 1..Len(procs[t].ops) : procs[t].ops[k][1] = kind /\ procs[t].ops[k][2] = db}

\* The restores that went through the database phases one database at a time.
DbRestores == {t \in ProcIds : procs[t].kind = "stackrestore" /\ procs[t].members # <<>>}

C33_PollingBounded ==
    \A t \in DbRestores :
        /\ procs[t].attempts <= ReadinessAttempts
        /\ procs[t].pc = "probe" => procs[t].attempts < ReadinessAttempts
        /\ ("ReadinessTimeout" \in procs[t].errs /\ procs[t].term = "failed")
               => "DeployFailed" \in procs[t].errs

C33_Witness ==
    \E t \in DbRestores :
        /\ DbOps(t, "unready", NewDbContainer) # {}
        /\ DbOps(t, "replay_end", NewDbContainer) # {}
        /\ procs[t].term = "completed"

\* The host ports of the plain mappings of a service's port list.
RECURSIVE PlainHosts(_)
PlainHosts(ports) ==
    IF ports = <<>> THEN <<>>
    ELSE (IF ports[1].plain THEN <<ports[1].host>> ELSE <<>>) \o PlainHosts(Tail(ports))

\* The host ports of the plain mappings of a manifest, in document order.
RECURSIVE HostPortsOf(_)
HostPortsOf(services) ==
    IF services = <<>> THEN <<>>
    ELSE PlainHosts(services[1][2].ports) \o HostPortsOf(Tail(services))

PairwiseDistinct(s) == \A i \in 1..Len(s), j \in 1..Len(s) : i # j => s[i] # s[j]

\* C36: when the host ports of a well-formed manifest are pairwise distinct,
\* the host ports of the manifest the rewriter returns are pairwise distinct.
C36_HostPortsStayDistinct ==
    (/\ Len(versions) >= 2
     /\ WellFormed(versions[1])
     /\ PairwiseDistinct(HostPortsOf(versions[1].services)))
    => PairwiseDistinct(HostPortsOf(versions[2].services))

\* The value the claim gives a placeholder: the envMap's when the envMap
\* defines the variable, else the process environment's when that defines it,
\* else the default, else nothing.
DefinedValue(piece, envMap, env) ==
    IF piece.key \in DOMAIN envMap THEN envMap[piece.key]
    ELSE IF piece.key \in DOMAIN env THEN env[piece.key]
    ELSE piece.defaultValue

\* The value of a placeholder when a variable that is defined as the empty
\* string counts as not defined.
NonEmptyValue(piece, envMap, env) ==
    IF piece.key \in DOMAIN envMap /\ envMap[piece.key] # <<>> THEN envMap[piece.key]
    ELSE IF piece.key \in DOMAIN env /\ env[piece.key] # <<>> THEN env[piece.key]
    ELSE piece.defaultValue

\* The text of a template whose placeholders are given the value
\* "defined" or "nonempty" .
RECURSIVE Resolved(_, _, _, _)
Resolved(pieces, envMap, env, rule) ==
    IF pieces = <<>> THEN <<>>
    ELSE (IF pieces[1].kind = "literal" THEN pieces[1].tokens
          ELSE IF rule = "defined" THEN DefinedValue(pieces[1], envMap, env)
          ELSE NonEmptyValue(pieces[1], envMap, env))
         \o Resolved(Tail(pieces), envMap, env, rule)

\* C34: resolveEnvValue gives each placeholder the value of its variable in
\* the envMap when the envMap defines it, else the value in the process
\* environment when that defines it, else the default, else the empty string.
C34_DefinedPrecedence ==
    applied.fn = "resolveEnvValue" =>
        applied.out = Resolved(applied.val, applied.envMap, applied.env, "defined")

\* C34 as the code has it: a variable counts only when its value is not
\* empty; the envMap comes first, then the process environment, then the
\* default, then the empty string.
C34_NonEmptyPrecedence ==
    applied.fn = "resolveEnvValue" =>
        applied.out = Resolved(applied.val, applied.envMap, applied.env, "nonempty")

C34_Witness ==
    /\ applied.fn = "resolveEnvValue"
    /\ applied.val = <<PlaceholderOr("VAR", <<"d">>)>>
    /\ applied.envMap = [VAR |-> <<>>]
    /\ applied.env = [VAR |-> <<"p">>]
    /\ applied.out = <<"p">>

\* C35: for every captured absolute path that holds no `_`, decoding the tar
\* entry name the backup gave it yields the path.
C35_PathRoundTrip ==
    (applied.fn = "volumePath" /\ \A i \in 1..Len(applied.val) : applied.val[i] # "_")
        => applied.out = applied.val

\* C39: a stack restore does not lose the environment variables of the stored
\* definition of S: no step takes the env-variable map away from a definition
\* that holds one.
C39_EnvVarsKept ==
    [][(stacks.imported /\ stacks.hasEnv) => (stacks'.imported /\ stacks'.hasEnv)]_vars

\* The statuses of a job in flight.
InFlight == {"pending", "processing", "uploading"}

\* C37: a trigger for an id whose record shows a job in flight leaves that
\* record as it is: the new request is tracked in a record of its own.
C37_TriggerKeepsInFlightRecord ==
    [][\A id \in JobIds :
          (/\ globalState[id].status \in InFlight
           /\ \E t \in ProcIds : procs[t].id = id /\ procs[t].term \notin Terminal
           /\ Len(procs') = Len(procs) + 1
           /\ procs'[Len(procs')].id = id)
          => globalState'[id] = globalState[id]]_vars

\* Job t was put on the queue.
Enqueued(t) == t \in ProcIds /\ procs[t].via = "queue"

\* Job t was started by the queue and its handler made its terminal write.
StartedAndEnded(t) ==
    t \in ProcIds /\ procs[t].pc # "queued" /\ procs[t].term \in Terminal

\* C38: every job put on the queue is eventually started and eventually
\* reaches completed or failed, whatever became of the jobs before it.
C38_QueueNeverBlocks == \A t \in Tickets : Enqueued(t) ~> StartedAndEnded(t)

C38_Witness ==
    \E u \in ProcIds, t \in ProcIds :
        /\ u < t /\ Enqueued(u) /\ Enqueued(t)
        /\ procs[u].term = "failed"
        /\ StartedAndEnded(t)

\* The active triggers are those of the schedules of settings: one trigger
\* with the schedule's cron expression for each schedule that has one, and
\* none for any other key.
TriggersMatch(settings) ==
    LET wanted == scheduleFrom(settings.containerSchedules, "container", 1, <<>>)
                  \o scheduleFrom(settings.stackSchedules, "stack", 1, <<>>)
        active == {i \in 1..Len(scheduler.tasks) : scheduler.tasks[i].active}
    IN  /\ \A j \in 1..Len(wanted) :
               \E i \in active :
                   /\ scheduler.tasks[i].key = wanted[j].key
                   /\ scheduler.tasks[i].cron = wanted[j].cron
        /\ \A i \in active :
               \E j \in 1..Len(wanted) :
                   /\ scheduler.tasks[i].key = wanted[j].key
                   /\ scheduler.tasks[i].cron = wanted[j].cron

\* C40: once the scheduler runs, the registered triggers are those of the
\* saved schedules, also after the settings were saved again: an added or
\* changed schedule has a trigger at its new time, a removed or manual one
\* has none.
C40_TriggersMatchSaved == scheduler.runs > 0 => TriggersMatch(scheduler.saved)

====
